---------------------------- MODULE Spec2Model ----------------------------
(***************************************************************************)
(* Model of the content script's ElementInspector (content.js): the DOM    *)
(* it inspects, selector synthesis, resilience scoring, the two locator    *)
(* composers and the click / mutation-observer handlers.                   *)
(*                                                                         *)
(* Strings are sequences of one-character strings, so that regular         *)
(* expressions, escaping and String.includes/split can be computed.        *)
(* A multi-character token (a tag name, ":nth-of-type(") stands for that   *)
(* run of characters.                                                      *)
(***************************************************************************)
EXTENDS Integers, Sequences, FiniteSets, TLC

VARIABLES
    dom,                    \* the document: sequence of element records, index = node
    now,                    \* Date.now() in ms
    isActive,               \* ElementInspector.isActive
    listeners,              \* event types of document with a registered inspector handler
    mutationObserver,       \* TRUE iff this.mutationObserver is a connected observer
    domNodeCreationTimes,   \* WeakMap node -> insertion time (-1 = no entry)
    selectedElements,       \* Map selector -> record, as a sequence in insertion order
    highlightedElement,     \* hovered node, 0 = null
    lastCall,               \* throttle(handleMouseMove): time of the last call let through
    sent,                   \* the last message passed to chrome.runtime.sendMessage
    handled,                \* the runtime message handled by the last step, with its response
    synth,                  \* last call of getElementSelector and getElementXPath
    scoreCall,              \* last call of calculateResilienceScore: [type, value, result]
    composed,               \* last call of the two locator composers
    panel,                  \* side panel: elements held, buttons, the last prompt payload built
    tabs,                   \* messages in flight between the side panel and the content script
    window,                 \* the page's window.elementInspector and every instance created
    retry                   \* one call of fetchWithRetry

\* everything but the record of the last runtime message and its channel
state == <<dom, now, isActive, listeners, mutationObserver, domNodeCreationTimes,
           selectedElements, highlightedElement, lastCall, sent, synth, scoreCall, composed,
           panel, window, retry>>

vars == <<state, handled, tabs>>

\* the variables of the content script's inspector and its document
content == <<dom, now, isActive, listeners, mutationObserver, domNodeCreationTimes,
             selectedElements, highlightedElement, lastCall, sent, synth, scoreCall, composed>>

-----------------------------------------------------------------------------
(* Bounds *)

MaxInsert == 3          \* elements inserted into the deep document (SelSpec)
MaxValueLen == 5        \* length of the values handed to the scorer (ComposeSpec)
MaxComposeNodes == 3    \* elements inserted into the form document (ComposeSpec)
MaxPageNodes == 2       \* elements the page inserts while it is inspected
MaxTicks == 4           \* half seconds that pass while the page is inspected
MaxSelected == 1        \* selection records held at once (TrackSpec)
MaxHoverNodes == 1      \* elements the page inserts while the user hovers (Spec)
MaxRests == 1           \* 50 ms pauses of the pointer (Spec)
MaxRecords == 2         \* selection records held at once (Spec)
MaxPanelRecords == 2    \* selection records held at once (PanelSpec)
MaxInspectors == 5      \* ElementInspector instances created in one page (InjectSpec)
MaxRetries == 3         \* largest maxRetries handed to fetchWithRetry (RetrySpec)

-----------------------------------------------------------------------------
(* Strings *)

Digits == {"0", "1", "2", "3", "4", "5", "6", "7", "8", "9"}
Whitespace == {" ", "\n"}

Min(a, b) == IF a < b THEN a ELSE b

\* RegExp.test for the literal /\d{4,}/ : four consecutive digits somewhere
TestDigitRun(s) ==
    \E i \in 1..(Len(s) - 3) : \A j \in i..(i + 3) : s[j] \in Digits

\* RegExp.test for the literal /\\d{4,}/ : a backslash followed by four 'd'
TestBackslashDRun(s) ==
    \E i \in 1..(Len(s) - 4) : s[i] = "\\" /\ \A j \in (i + 1)..(i + 4) : s[j] = "d"

\* String.prototype.trim
RECURSIVE TrimLeft(_)
TrimLeft(s) == IF s # <<>> /\ Head(s) \in Whitespace THEN TrimLeft(Tail(s)) ELSE s
RECURSIVE TrimRight(_)
TrimRight(s) ==
    IF s # <<>> /\ s[Len(s)] \in Whitespace THEN TrimRight(SubSeq(s, 1, Len(s) - 1)) ELSE s
Trim(s) == TrimRight(TrimLeft(s))

\* s.split('\n')[0]
RECURSIVE FirstLine(_)
FirstLine(s) ==
    IF s = <<>> \/ Head(s) = "\n" THEN <<>> ELSE <<Head(s)>> \o FirstLine(Tail(s))

\* s.substring(0, k)
Substring0(s, k) == SubSeq(s, 1, Min(k, Len(s)))

\* s.replace(/'/g, "\\'")
RECURSIVE EscapeSingleQuotes(_)
EscapeSingleQuotes(s) ==
    IF s = <<>> THEN <<>>
    ELSE (IF Head(s) = "'" THEN <<"\\", "'">> ELSE <<Head(s)>>) \o EscapeSingleQuotes(Tail(s))

\* s.replace(/"/g, '\\"')
RECURSIVE EscapeDoubleQuotes(_)
EscapeDoubleQuotes(s) ==
    IF s = <<>> THEN <<>>
    ELSE (IF Head(s) = "\"" THEN <<"\\", "\"">> ELSE <<Head(s)>>) \o EscapeDoubleQuotes(Tail(s))

\* escapeCssStr of getSeleniumLocator: s.replace(/(["'\\])/g, '\\$1')
RECURSIVE escapeCssStr(_)
escapeCssStr(s) ==
    IF s = <<>> THEN <<>>
    ELSE (IF Head(s) \in {"\"", "'", "\\"} THEN <<"\\", Head(s)>> ELSE <<Head(s)>>)
         \o escapeCssStr(Tail(s))

-----------------------------------------------------------------------------
(* A document d.  Node n > 0 is d[n]; children are ordered by node        *)
(* number (appendChild).  A tooltip the inspector appended to node n is the *)
(* element -n: a <div class="element-tooltip"> that is a child of n, placed *)
(* after the children of n that existed when it was appended (d[n].tip      *)
(* is the number of nodes at that moment, -1 without tooltip).              *)
(* insertedAt is history, not read by the inspector: the time at which the *)
(* element entered the body while the observer was connected, else -1.     *)

AttrNames == {"name", "data-testid", "role", "type", "aria-label", "value",
              "placeholder", "title", "alt", "href"}

NoAttrs == [a \in AttrNames |-> <<>>]

Element(parent, tag, id, cls, attrs, text) ==
    [parent |-> parent, tag |-> tag, id |-> id, cls |-> cls,
     attrs |-> attrs @@ NoAttrs, text |-> text, tip |-> -1, tipText |-> <<>>,
     insertedAt |-> -1]

Nodes(d) == 1..Len(d)
Elements(d) == Nodes(d) \cup {-n : n \in {m \in Nodes(d) : d[m].tip >= 0}}

parentElement(d, e) == IF e < 0 THEN -e ELSE d[e].parent
tagName(d, e) == IF e < 0 THEN "div" ELSE d[e].tag
idOf(d, e) == IF e < 0 THEN <<>> ELSE d[e].id
classList(d, e) == IF e < 0 THEN << <<"element-tooltip">> >> ELSE d[e].cls
getAttribute(d, e, a) == IF e < 0 THEN <<>> ELSE d[e].attrs[a]

\* element siblings that precede e under the same parent
PrecedingSiblings(d, e) ==
    IF e < 0
    THEN {c \in Nodes(d) : d[c].parent = -e /\ c <= d[-e].tip}
    ELSE {c \in Nodes(d) : d[c].parent = d[e].parent /\ c < e}
         \cup (IF d[e].parent # 0 /\ d[d[e].parent].tip >= 0
                  /\ d[d[e].parent].tip < e
               THEN {-d[e].parent} ELSE {})

children(d, e) ==
    IF e < 0 THEN {}
    ELSE {c \in Nodes(d) : d[c].parent = e} \cup (IF d[e].tip >= 0 THEN {-e} ELSE {})

\* 1 + number of preceding siblings with the same tag (the :nth-of-type index)
TypeIndex(d, e) == 1 + Cardinality({s \in PrecedingSiblings(d, e) : tagName(d, s) = tagName(d, e)})

-----------------------------------------------------------------------------
(* CSS selectors.  A selector is a sequence of compound selectors joined    *)
(* by the child combinator " > ".  A compound holds the texts written      *)
(* after '#', after each '.', and between the quotes of [attr="..."].      *)

Compound(tag, id, cls, attr, nth) ==
    [tag |-> tag, id |-> id, cls |-> cls, attr |-> attr, nth |-> nth]

IdSelector(id) == << Compound("", id, <<>>, <<>>, 0) >>
ClassSelector(cls) == << Compound("", <<>>, cls, <<>>, 0) >>
AttrSelector(tag, a, v) == << Compound(tag, <<>>, <<>>, <<a, v>>, 0) >>
TagSegment(tag, nth) == Compound(tag, <<>>, <<>>, <<>>, nth)

\* characters with a meaning in selector syntax; any other character may
\* appear in an identifier
CssSpecial == {" ", "\n", "\"", "'", "\\", ">", "#", ".", "[", "]", ":", "=", "(", ")",
               "+", "~", ",", "*"}
HexDigits == Digits \cup {"a", "b", "c", "d", "e", "f", "A", "B", "C", "D", "E", "F"}

\* a character no value of the document contains (the result of a hex escape)
Escaped == "\\hex"

\* The CSS parser reading the text of an identifier (quoted = FALSE) or of a
\* double-quoted string (quoted = TRUE) from position i: the value denoted,
\* or ok = FALSE where the parser raises a SyntaxError.  A backslash makes
\* the next character literal; before a hex digit it starts a code point.
RECURSIVE ParseCss(_, _, _)
ParseCss(text, i, quoted) ==
    IF i > Len(text) THEN [ok |-> TRUE, value |-> <<>>]
    ELSE IF text[i] = "\\"
         THEN IF i = Len(text) \/ text[i + 1] = "\n"
              THEN [ok |-> FALSE, value |-> <<>>]
              ELSE LET rest == ParseCss(text, i + 2, quoted)
                   IN  [ok |-> rest.ok,
                        value |-> <<IF text[i + 1] \in HexDigits THEN Escaped
                                    ELSE text[i + 1]>> \o rest.value]
         ELSE IF (~quoted /\ text[i] \in CssSpecial) \/ (quoted /\ text[i] \in {"\"", "\n"})
              THEN [ok |-> FALSE, value |-> <<>>]
              ELSE LET rest == ParseCss(text, i + 1, quoted)
                   IN  [ok |-> rest.ok, value |-> <<text[i]>> \o rest.value]

\* an identifier the CSS parser accepts after '#' or '.'
ValidIdent(text) == text # <<>> /\ text[1] \notin Digits /\ ParseCss(text, 1, FALSE).ok

\* a value the CSS parser accepts between the double quotes of [attr="..."]
ValidQuoted(text) == ParseCss(text, 1, TRUE).ok

ValidCompound(c) ==
    /\ c.id # <<>> => ValidIdent(c.id)
    /\ \A i \in 1..Len(c.cls) : ValidIdent(c.cls[i])
    /\ c.attr # <<>> => ValidQuoted(c.attr[2])

ValidSelector(sel) == sel # <<>> /\ \A i \in 1..Len(sel) : ValidCompound(sel[i])

\* only evaluated for valid selectors
MatchesCompound(d, e, c) ==
    /\ c.tag # "" => tagName(d, e) = c.tag
    /\ c.id # <<>> => idOf(d, e) = ParseCss(c.id, 1, FALSE).value
    /\ \A i \in 1..Len(c.cls) :
          \E j \in 1..Len(classList(d, e)) : classList(d, e)[j] = ParseCss(c.cls[i], 1, FALSE).value
    /\ c.attr # <<>> => getAttribute(d, e, c.attr[1]) = ParseCss(c.attr[2], 1, TRUE).value
    /\ c.nth # 0 => TypeIndex(d, e) = c.nth

RECURSIVE Matches(_, _, _, _)
Matches(d, e, sel, k) ==
    /\ MatchesCompound(d, e, sel[k])
    /\ k > 1 => /\ parentElement(d, e) # 0
                /\ Matches(d, parentElement(d, e), sel, k - 1)

\* document.querySelectorAll: the matching elements, or a thrown SyntaxError
querySelectorAll(d, sel) ==
    IF ValidSelector(sel)
    THEN [threw |-> FALSE, elements |-> {e \in Elements(d) : Matches(d, e, sel, Len(sel))}]
    ELSE [threw |-> TRUE, elements |-> {}]

isUniqueSelector_AcceptsInvalid(d, sel, element) ==
    LET result == querySelectorAll(d, sel)
    IN  IF result.threw THEN TRUE ELSE result.elements = {element}

isUniqueSelector(d, sel, element) ==
    LET result == querySelectorAll(d, sel)
    IN  IF result.threw THEN FALSE                \* catch (e) { return false }
        ELSE result.elements = {element}          \* length === 1 && elements[0] === element

-----------------------------------------------------------------------------
(* getElementSelector *)

maxDepth == 5

commonAttributes == <<"name", "data-testid", "role", "type", "aria-label", "value",
                      "placeholder">>

PathSegment_Indexed(d, e) == TagSegment(tagName(d, e), TypeIndex(d, e))

\* one segment of the ancestry path: tag, with :nth-of-type(index) when
\* index > 1 or the bare tag is not unique
PathSegment(d, e) ==
    LET index == TypeIndex(d, e)
    IN  TagSegment(tagName(d, e),
                   IF index > 1 \/ ~isUniqueSelector(d, <<TagSegment(tagName(d, e), 0)>>, e)
                   THEN index ELSE 0)

\* the while loop of step 4
RECURSIVE AncestryLoop(_, _, _, _)
AncestryLoop(d, element, currentElement, path) ==
    IF parentElement(d, currentElement) # 0 /\ Len(path) < maxDepth
    THEN LET parent == parentElement(d, currentElement)
             testSelector == <<PathSegment(d, parent)>> \o path
         IN  IF isUniqueSelector(d, testSelector, element)
             THEN testSelector
             ELSE AncestryLoop(d, element, parent, testSelector)
    ELSE path                                     \* final fallback

AncestrySelector(d, element) == AncestryLoop(d, element, element, <<PathSegment(d, element)>>)

\* step 3: the first unique tag[attr="value"], else the ancestry path
RECURSIVE AttributeLoop(_, _, _)
AttributeLoop(d, element, i) ==
    IF i > Len(commonAttributes) THEN AncestrySelector(d, element)
    ELSE LET attr == commonAttributes[i]
             attrValue == getAttribute(d, element, attr)
             attrSelector == AttrSelector(tagName(d, element), attr, attrValue)
         IN  IF attrValue # <<>> /\ isUniqueSelector(d, attrSelector, element)
             THEN attrSelector
             ELSE AttributeLoop(d, element, i + 1)

RECURSIVE ClassLoop_CombinedOnly(_, _, _)
ClassLoop_CombinedOnly(d, element, i) ==
    LET classNames == classList(d, element)
    IN  IF Len(classNames) > 0 /\ isUniqueSelector(d, ClassSelector(classNames), element)
        THEN ClassSelector(classNames)
        ELSE AttributeLoop(d, element, 1)

\* step 2: the first unique single class, else the combined classes, else step 3
RECURSIVE ClassLoop(_, _, _)
ClassLoop(d, element, i) ==
    LET classNames == classList(d, element)
    IN  IF i > Len(classNames)
        THEN IF Len(classNames) > 0 /\ isUniqueSelector(d, ClassSelector(classNames), element)
             THEN ClassSelector(classNames)
             ELSE AttributeLoop(d, element, 1)
        ELSE IF isUniqueSelector(d, ClassSelector(<<classNames[i]>>), element)
             THEN ClassSelector(<<classNames[i]>>)
             ELSE ClassLoop(d, element, i + 1)

getElementSelector_Unchecked(d, element) ==
    IF idOf(d, element) # <<>> THEN IdSelector(idOf(d, element)) ELSE ClassLoop(d, element, 1)

getElementSelector(d, element) ==
    IF idOf(d, element) # <<>> /\ isUniqueSelector(d, IdSelector(idOf(d, element)), element)
    THEN IdSelector(idOf(d, element))
    ELSE ClassLoop(d, element, 1)

-----------------------------------------------------------------------------
(* The selector as the string the code builds *)

DigitChar == <<"0", "1", "2", "3", "4", "5", "6", "7", "8", "9">>

RECURSIVE Decimal(_)
Decimal(k) ==
    IF k < 10 THEN <<DigitChar[k + 1]>> ELSE Decimal(k \div 10) \o <<DigitChar[(k % 10) + 1]>>

RECURSIVE ClassText(_)
ClassText(cls) == IF cls = <<>> THEN <<>> ELSE <<".">> \o Head(cls) \o ClassText(Tail(cls))

CompoundText(c) ==
    (IF c.tag # "" THEN <<c.tag>> ELSE <<>>)
    \o (IF c.id # <<>> THEN <<"#">> \o c.id ELSE <<>>)
    \o ClassText(c.cls)
    \o (IF c.attr # <<>> THEN <<"[", c.attr[1], "=", "\"">> \o c.attr[2] \o <<"\"", "]">>
        ELSE <<>>)
    \o (IF c.nth # 0 THEN <<":nth-of-type", "(">> \o Decimal(c.nth) \o <<")">> ELSE <<>>)

\* path.join(' > ')
RECURSIVE CssText(_)
CssText(sel) ==
    IF Len(sel) = 1 THEN CompoundText(sel[1])
    ELSE CompoundText(Head(sel)) \o <<" ", ">", " ">> \o CssText(Tail(sel))

-----------------------------------------------------------------------------
(* getElementXPath.  The path is the string the code builds, "//*[@id="    *)
(* and a tag name each standing for that run of characters.                *)

\* element siblings before e with the tag of e
SameTagBefore(d, e) == Cardinality({s \in PrecedingSiblings(d, e) : tagName(d, s) = tagName(d, e)})

XPathSegment_ZeroBased(d, e) ==
    LET index == SameTagBefore(d, e)
    IN  <<tagName(d, e)>> \o (IF index # 0 THEN <<"[">> \o Decimal(index) \o <<"]">> ELSE <<>>)

\* tagName + pathIndex
XPathSegment(d, e) ==
    LET index == SameTagBefore(d, e)
    IN  <<tagName(d, e)>>
        \o (IF index # 0 THEN <<"[">> \o Decimal(index + 1) \o <<"]">> ELSE <<>>)

\* the for loop from the element up to the document, paths.unshift(...)
RECURSIVE XPathLoop(_, _, _)
XPathLoop(d, element, paths) ==
    IF element = 0 THEN paths
    ELSE XPathLoop(d, parentElement(d, element), <<XPathSegment(d, element)>> \o paths)

\* '/' + paths.join('/')
RECURSIVE JoinSlash(_)
JoinSlash(paths) ==
    IF paths = <<>> THEN <<>> ELSE <<"/">> \o Head(paths) \o JoinSlash(Tail(paths))

getElementXPath(d, element) ==
    IF idOf(d, element) # <<>>
    THEN <<"//*[@id=", "\"">> \o idOf(d, element) \o <<"\"", "]">>
    ELSE JoinSlash(XPathLoop(d, element, <<>>))

-----------------------------------------------------------------------------
(* calculateResilienceScore *)

\* value.includes(':nth-of-type')
IncludesNthOfType(value) == \E i \in 1..Len(value) : value[i] = ":nth-of-type"

\* value.split('>').length
SplitLength(value) == 1 + Cardinality({i \in 1..Len(value) : value[i] = ">"})

calculateResilienceScore_Unbounded(type, value) ==
    IF type = "testid" THEN 100 + Len(value) ELSE IF type = "css" THEN 30 ELSE -1

calculateResilienceScore(type, value) ==
    IF type = "testid" THEN 100
    ELSE IF type = "role" THEN 90
    ELSE IF type = "placeholder" THEN 80
    ELSE IF type = "text" THEN 60
    ELSE IF type = "id" THEN (IF TestBackslashDRun(value) THEN 10 ELSE 70)
    ELSE IF type = "name" THEN 65
    ELSE IF type = "class" THEN (IF TestBackslashDRun(value) THEN 10 ELSE 40)
    ELSE IF type = "css"
         THEN (IF IncludesNthOfType(value) \/ SplitLength(value) > 3 THEN 15 ELSE 30)
    ELSE 0

-----------------------------------------------------------------------------
(* DOM reads used by the composers *)

\* position among the children of one parent
SiblingKey(d, e) == IF e < 0 THEN 2 * d[-e].tip + 1 ELSE 2 * e

previousElementSibling(d, e) ==
    LET before == PrecedingSiblings(d, e)
    IN  IF before = {} THEN 0
        ELSE CHOOSE s \in before : \A t \in before : SiblingKey(d, t) <= SiblingKey(d, s)

RECURSIVE InOrder(_, _)
InOrder(d, set) ==
    IF set = {} THEN <<>>
    ELSE LET first == CHOOSE s \in set : \A t \in set : SiblingKey(d, s) <= SiblingKey(d, t)
         IN  <<first>> \o InOrder(d, set \ {first})

BlockTags == {"div", "form", "p", "section", "article", "main", "tr",
              "h1", "h2", "h3", "h4", "h5", "h6"}

\* element.innerText: the element's own text, then the rendered text of its
\* children, a block-level child starting a new line; an <input> renders none
RECURSIVE innerText(_, _)
RECURSIVE ChildrenText(_, _, _)
innerText(d, e) ==
    IF e < 0 THEN d[-e].tipText
    ELSE IF d[e].tag = "input" THEN <<>>
    ELSE ChildrenText(d, d[e].text, InOrder(d, children(d, e)))
ChildrenText(d, acc, cs) ==
    IF cs = <<>> THEN acc
    ELSE LET t == innerText(d, Head(cs))
             sep == IF t # <<>> /\ acc # <<>> /\ tagName(d, Head(cs)) \in BlockTags
                    THEN <<"\n">> ELSE <<>>
         IN  ChildrenText(d, acc \o sep \o t, Tail(cs))

-----------------------------------------------------------------------------
(* Locator strings.  A call is fn('lit') or fn('role', { name: 'lit' });    *)
(* a candidate string is an optional prefix call, '.', and a call.         *)

Call(fn, role, lit) == [fn |-> fn, role |-> role, lit |-> lit]
NoCall == Call("", <<>>, <<>>)
LocatorStr(prefix, call) == [prefix |-> prefix, call |-> call]
Candidate(str, score) == [str |-> str, score |-> score]

\* Array.prototype.sort((a, b) => b.score - a.score): stable, descending
RECURSIVE InsertByScore(_, _)
InsertByScore(sorted, c) ==
    IF sorted = <<>> THEN <<c>>
    ELSE IF Head(sorted).score >= c.score
         THEN <<Head(sorted)>> \o InsertByScore(Tail(sorted), c)
         ELSE <<c>> \o sorted

SortByScore_Unsorted(locators) == locators

RECURSIVE SortByScore(_)
SortByScore(locators) ==
    IF locators = <<>> THEN <<>>
    ELSE InsertByScore(SortByScore(SubSeq(locators, 1, Len(locators) - 1)),
                       locators[Len(locators)])

TopStrs_All(locators, k) == [i \in 1..Len(locators) |-> locators[i].str]

\* locators.slice(0, k).map(l => l.str)
TopStrs(locators, k) == [i \in 1..Min(k, Len(locators)) |-> locators[i].str]

-----------------------------------------------------------------------------
(* getPlaywrightLocator *)

Landmarks == {"form", "main", "section", "article", "tr"}

RECURSIVE SemanticParentLoop(_, _, _)
SemanticParentLoop(d, current, depth) ==
    IF current = 0 \/ depth >= 4 THEN NoCall
    ELSE IF tagName(d, current) \in Landmarks \/ getAttribute(d, current, "data-testid") # <<>>
         THEN IF getAttribute(d, current, "data-testid") # <<>>
              THEN Call("getByTestId", <<>>, getAttribute(d, current, "data-testid"))
              ELSE IF getAttribute(d, current, "aria-label") # <<>>
              THEN Call("getByRole", <<"r", "e", "g", "i", "o", "n">>,
                        EscapeSingleQuotes(getAttribute(d, current, "aria-label")))
              ELSE Call("locator", <<>>, <<tagName(d, current)>>)
         ELSE SemanticParentLoop(d, parentElement(d, current), depth + 1)

getSemanticParent(d, el) == SemanticParentLoop(d, parentElement(d, el), 0)

getRelativeContext(d, el) ==
    IF tagName(d, el) # "input" THEN NoCall
    ELSE LET prev == previousElementSibling(d, el)
         IN  IF prev # 0 /\ tagName(d, prev) = "label" /\ innerText(d, prev) # <<>>
             THEN Call("getByLabel", <<>>, EscapeSingleQuotes(Trim(innerText(d, prev))))
             ELSE NoCall

Chars(word) ==
    CASE word = "button" -> <<"b", "u", "t", "t", "o", "n">>
      [] word = "link" -> <<"l", "i", "n", "k">>
      [] word = "checkbox" -> <<"c", "h", "e", "c", "k", "b", "o", "x">>
      [] word = "radio" -> <<"r", "a", "d", "i", "o">>
      [] word = "combobox" -> <<"c", "o", "m", "b", "o", "b", "o", "x">>
      [] word = "textbox" -> <<"t", "e", "x", "t", "b", "o", "x">>
      [] word = "heading" -> <<"h", "e", "a", "d", "i", "n", "g">>
      [] word = "submit" -> <<"s", "u", "b", "m", "i", "t">>
      [] word = "reset" -> <<"r", "e", "s", "e", "t">>

\* the role attribute, else the role inferred from tag and type
RoleOf(d, element) ==
    LET tag == tagName(d, element)
        type == getAttribute(d, element, "type")
    IN  IF getAttribute(d, element, "role") # <<>> THEN getAttribute(d, element, "role")
        ELSE IF tag = "button"
                \/ (tag = "input" /\ type \in {Chars("button"), Chars("submit"), Chars("reset")})
             THEN Chars("button")
        ELSE IF tag = "a" /\ getAttribute(d, element, "href") # <<>> THEN Chars("link")
        ELSE IF tag = "input" /\ type = Chars("checkbox") THEN Chars("checkbox")
        ELSE IF tag = "input" /\ type = Chars("radio") THEN Chars("radio")
        ELSE IF tag = "select" THEN Chars("combobox")
        ELSE IF tag = "input" THEN Chars("textbox")
        ELSE IF tag \in {"h1", "h2", "h3", "h4", "h5", "h6"} THEN Chars("heading")
        ELSE <<>>

\* aria-label || title || alt, else the first line of the visible text
AccessibleName(d, element) ==
    IF getAttribute(d, element, "aria-label") # <<>> THEN getAttribute(d, element, "aria-label")
    ELSE IF getAttribute(d, element, "title") # <<>> THEN getAttribute(d, element, "title")
    ELSE IF getAttribute(d, element, "alt") # <<>> THEN getAttribute(d, element, "alt")
    ELSE IF Trim(innerText(d, element)) # <<>>
         THEN Substring0(FirstLine(Trim(innerText(d, element))), 50)
    ELSE <<>>

\* const prefix = semanticParent ? `${semanticParent}.` : ''
PrefixOf_Dropped(semanticParent) == NoCall
PrefixOf(semanticParent) == semanticParent

\* the candidate list of getPlaywrightLocator before sorting
PlaywrightCandidates(d, element) ==
    LET semanticParent == getSemanticParent(d, element)
        relativeContext == getRelativeContext(d, element)
        prefix == PrefixOf(semanticParent)
        testid == getAttribute(d, element, "data-testid")
        placeholder == getAttribute(d, element, "placeholder")
        role == RoleOf(d, element)
        name == AccessibleName(d, element)
        text == Substring0(FirstLine(Trim(innerText(d, element))), 50)
        cssSelector == CssText(getElementSelector(d, element))
    IN  (IF testid # <<>>
         THEN << Candidate(LocatorStr(prefix, Call("getByTestId", <<>>, testid)),
                           calculateResilienceScore("testid", testid)) >>
         ELSE <<>>)
        \o (IF relativeContext # NoCall
            THEN << Candidate(LocatorStr(prefix, relativeContext), 85) >>
            ELSE IF placeholder # <<>>
            THEN << Candidate(LocatorStr(prefix, Call("getByPlaceholder", <<>>, placeholder)),
                              calculateResilienceScore("placeholder", placeholder)) >>
            ELSE <<>>)
        \o (IF role # <<>> /\ name # <<>>
            THEN << Candidate(LocatorStr(prefix,
                                  Call("getByRole", role, EscapeSingleQuotes(name))),
                              calculateResilienceScore("role", role)) >>
            ELSE <<>>)
        \o (IF Trim(innerText(d, element)) # <<>> /\ children(d, element) = {}
            THEN << Candidate(LocatorStr(prefix,
                                  Call("getByText", <<>>, EscapeSingleQuotes(text))),
                              calculateResilienceScore("text", text)) >>
            ELSE <<>>)
        \o << Candidate(LocatorStr(NoCall,
                            Call("locator", <<>>, EscapeSingleQuotes(cssSelector))),
                        calculateResilienceScore("css", cssSelector)) >>

\* wait = TRUE: "// DYNAMIC ELEMENT WAITER\nawait page.waitForSelector('waitLit',
\* { state: 'visible', timeout: 5000 });\nawait page." precedes the chain;
\* chain = <<a, b, c>> stands for a.or(page.b).or(page.c)
getPlaywrightLocator(d, element, isDynamic) ==
    LET topLocators == TopStrs(SortByScore(PlaywrightCandidates(d, element)), 3)
        escapedCss == EscapeSingleQuotes(CssText(getElementSelector(d, element)))
    IN  [wait |-> isDynamic,
         waitLit |-> IF isDynamic THEN escapedCss ELSE <<>>,
         timeout |-> IF isDynamic THEN 5000 ELSE 0,
         chain |-> topLocators]

-----------------------------------------------------------------------------
(* getSeleniumLocator *)

SeleniumCandidates(d, element) ==
    LET id == idOf(d, element)
        nameValue == getAttribute(d, element, "name")
        cssSelector == CssText(getElementSelector(d, element))
    IN  (IF id # <<>> /\ isUniqueSelector(d, IdSelector(escapeCssStr(id)), element)
         THEN << Candidate(LocatorStr(NoCall, Call("By.id", <<>>, id)),
                           calculateResilienceScore("id", id)) >>
         ELSE <<>>)
        \o (IF nameValue # <<>>
               /\ isUniqueSelector(d, AttrSelector(tagName(d, element), "name",
                                                escapeCssStr(nameValue)), element)
            THEN << Candidate(LocatorStr(NoCall, Call("By.name", <<>>, nameValue)),
                              calculateResilienceScore("name", nameValue)) >>
            ELSE <<>>)
        \o << Candidate(LocatorStr(NoCall,
                            Call("By.cssSelector", <<>>, EscapeDoubleQuotes(cssSelector))),
                        calculateResilienceScore("css", cssSelector)) >>

getSeleniumLocator_NoWait(d, element, isDynamic) ==
    [wait |-> FALSE, waitOn |-> LocatorStr(NoCall, NoCall), seconds |-> 0,
     attempts |-> TopStrs(SortByScore(SeleniumCandidates(d, element)), 2)]

\* wait = TRUE: "WebDriverWait wait = new WebDriverWait(driver,
\* Duration.ofSeconds(5));\nwait.until(ExpectedConditions
\* .visibilityOfElementLocated(waitOn));\n" precedes the attempts;
\* attempts = <<a>> is driver.findElement(a), attempts = <<a, b>> is
\* try { findElement(a) } catch (NoSuchElementException e) { findElement(b) }
getSeleniumLocator(d, element, isDynamic) ==
    LET topLocators == TopStrs(SortByScore(SeleniumCandidates(d, element)), 2)
    IN  [wait |-> isDynamic,
         waitOn |-> IF isDynamic THEN topLocators[1] ELSE LocatorStr(NoCall, NoCall),
         seconds |-> IF isDynamic THEN 5 ELSE 0,
         attempts |-> topLocators]

-----------------------------------------------------------------------------
(* Documents and the fragments a page script inserts *)

Html == Element(0, "html", <<>>, <<>>, <<>>, <<>>)
Body == Element(1, "body", <<>>, <<>>, <<>>, <<>>)
Div(parent) == Element(parent, "div", <<>>, <<>>, <<>>, <<>>)

\* a page that loaded with an empty body
EmptyDocument == <<Html, Body>>

\* a page that loaded with a chain of three nested <div>
DeepDocument == <<Html, Body, Div(2), Div(3), Div(4)>>

\* single-element fragments used to exercise selector synthesis
SelectorFragments ==
    { << Div(0) >>,
      << Element(0, "div", <<>>, << <<"c">>, <<"k">> >>, <<>>, <<>>) >>,
      << Element(0, "input", <<"1">>, << <<"c">> >>, ("name" :> <<"n">>), <<>>) >>,
      << Element(0, "span", <<"a">>, << <<"k">> >>, <<>>, <<>>) >> }

\* parent field of a fragment element is an index into the fragment, 0 = its root
Attach(frag, p, base, time) ==
    [i \in 1..Len(frag) |->
        [frag[i] EXCEPT !.parent = IF frag[i].parent = 0 THEN p ELSE base + frag[i].parent,
                        !.insertedAt = time]]

\* handleRuntimeMessage(request, sender, sendResponse): the request and the
\* status passed to sendResponse
Handled(action, selector, status) == [action |-> action, selector |-> selector, status |-> status]
NoRequest == Handled("", <<>>, "")

\* chrome.tabs and chrome.runtime: the side panel's pending chrome.tabs.query
\* callbacks, the requests it sent to the tab and the responses on their way
\* back, each in the order of sending; update tells that the message in sent
\* is on its way to the side panel
NoTabs == [queries |-> <<>>, requests |-> <<>>, responses |-> <<>>, update |-> FALSE]

\* chrome.runtime.sendMessage of sendSelectedElementsToExtension: the message
\* replaces, for the side panel, the ones before it that it has not taken in
sendMessage(channel) == [channel EXCEPT !.update = TRUE]

\* sendResponse(...): the response goes back to the side panel when the
\* request came from it; another sender (the background script) drops it
sendResponse(channel, action, selector, status) ==
    IF channel.requests # <<>> /\ Head(channel.requests) = Handled(action, selector, "")
    THEN [channel EXCEPT !.requests = Tail(@),
                         !.responses = Append(@, Handled(action, selector, status))]
    ELSE channel

\* handleRuntimeMessage ends: the request handled and the status it answers
Respond(action, selector, status) ==
    /\ handled' = Handled(action, selector, status)
    /\ tabs' = sendResponse(tabs, action, selector, status)

\* the same after sendSelectedElementsToExtension
RespondUpdated(action, selector, status) ==
    /\ handled' = Handled(action, selector, status)
    /\ tabs' = sendResponse(sendMessage(tabs), action, selector, status)

-----------------------------------------------------------------------------
(* window.elementInspector and the instances of ElementInspector.  An        *)
(* instance is followed through its mode and the listeners it registered;   *)
(* instance 0 is null.                                                      *)

\* new ElementInspector()
Inspector ==
    [isActive |-> FALSE, mutationObserver |-> FALSE, listeners |-> {},
     highlightStyleAdded |-> FALSE, onMessage |-> FALSE, onSuspend |-> FALSE,
     response |-> ""]

\* init(): the style, the runtime message listener, beforeunload, and the
\* onSuspend listener where chrome.runtime.onSuspend is defined
init(inspector, onSuspend) ==
    [inspector EXCEPT !.highlightStyleAdded = TRUE,
                      !.onMessage = TRUE,
                      !.listeners = @ \cup {"beforeunload"},
                      !.onSuspend = onSuspend]

\* the content script is run in a page
RunScript(w, onSuspend) ==
    IF w.elementInspector = 0                     \* if (!window.elementInspector)
    THEN [elementInspector |-> Len(w.inspectors) + 1,
          inspectors |-> Append(w.inspectors, init(Inspector, onSuspend))]
    ELSE w

NoWindow == [elementInspector |-> 0, inspectors |-> <<>>]

\* fetchWithRetry has not been called.  calls: how each call of fn settled;
\* delays: the delays waited; result: the value returned or the error thrown
NoOutcome == [kind |-> "", status |-> 0]
NoFetch == [maxRetries |-> 0, attempt |-> 0, calls |-> <<>>, delays |-> <<>>,
            pc |-> "idle", result |-> NoOutcome]

\* startInspection, stopInspection and clearAllStates as they change the
\* mode and the listeners of one instance
startInspection(inspector) ==
    IF inspector.isActive THEN inspector
    ELSE [inspector EXCEPT !.isActive = TRUE,
                           !.listeners = @ \cup {"mousemove", "click"},
                           !.mutationObserver = TRUE]

stopInspection(inspector) ==
    IF ~inspector.isActive THEN inspector
    ELSE [inspector EXCEPT !.isActive = FALSE,
                           !.listeners = @ \ {"mousemove", "click"},
                           !.mutationObserver = FALSE]

clearAllStates(inspector) ==
    [inspector EXCEPT !.isActive = FALSE,
                      !.mutationObserver = FALSE,
                      !.listeners = {},
                      !.highlightStyleAdded = FALSE]

\* handleRuntimeMessage of one instance
handleRuntimeMessage(inspector, action) ==
    IF action = "startInspect" THEN [startInspection(inspector) EXCEPT !.response = "started"]
    ELSE IF action = "stopInspect" THEN [stopInspection(inspector) EXCEPT !.response = "stopped"]
    ELSE IF action = "resetInspect" THEN [inspector EXCEPT !.response = "reset"]
    ELSE IF action = "clearAll" THEN [clearAllStates(inspector) EXCEPT !.response = "cleared"]
    ELSE [inspector EXCEPT !.response = "unknown action"]

\* the side panel when its DOMContentLoaded handler has run: no elements,
\* isInspecting = false, no callback pending, no generation running.  The
\* buttons are those of the panel's page; Stop starts disabled, the other
\* three enabled.
Buttons == {"inspect", "stop", "reset", "generate"}
NoPanel ==
    [currentElements |-> <<>>, received |-> <<>>, tool |-> "", domContent |-> <<>>,
     isInspecting |-> FALSE, disabled |-> [b \in Buttons |-> b = "stop"],
     callbacks |-> <<>>, generating |-> FALSE, btnStates |-> [b \in Buttons |-> FALSE]]

NotComposed ==
    [node |-> 0, isDynamic |-> FALSE, semanticParent |-> NoCall,
     playwrightCandidates |-> <<>>, seleniumCandidates |-> <<>>,
     playwrightLocator |-> [wait |-> FALSE, waitLit |-> <<>>, timeout |-> 0, chain |-> <<>>],
     seleniumLocator |-> [wait |-> FALSE, waitOn |-> LocatorStr(NoCall, NoCall),
                          seconds |-> 0, attempts |-> <<>>]]

InitInspector ==
    /\ now = 1000
    /\ isActive = FALSE
    /\ listeners = {}
    /\ mutationObserver = FALSE
    /\ selectedElements = <<>>
    /\ highlightedElement = 0
    /\ lastCall = 0
    /\ sent = [action |-> "", elements |-> <<>>]
    /\ handled = NoRequest
    /\ tabs = NoTabs
    /\ window = RunScript(NoWindow, TRUE)
    /\ retry = NoFetch
    /\ panel = NoPanel
    /\ synth = [node |-> 0, sel |-> <<>>, xpath |-> <<>>]
    /\ scoreCall = [type |-> "", value |-> <<>>, result |-> -1]
    /\ composed = NotComposed

\* A script of the page appends a fragment under node p.  The mutation
\* observer's callback (startMutationObserver) runs before any other event
\* and records Date.now() for each node of mutation.addedNodes: the root of
\* the fragment.
InsertFragment(p, frag) ==
    /\ p \in Nodes(dom) /\ p >= 2
    /\ dom' = dom \o Attach(frag, p, Len(dom), IF mutationObserver THEN now ELSE -1)
    /\ domNodeCreationTimes' = domNodeCreationTimes \o
           [i \in 1..Len(frag) |->
               IF mutationObserver /\ frag[i].parent = 0 THEN now ELSE -1]
    /\ handled' = NoRequest
    /\ UNCHANGED <<tabs, window, retry, panel, now, isActive, listeners, mutationObserver, selectedElements,
                   highlightedElement, lastCall, sent, synth, scoreCall, composed>>

\* getElementSelector and getElementXPath are applied to node n of the
\* current document
Synthesize(n) ==
    /\ n \in Nodes(dom)
    /\ synth' = [node |-> n, sel |-> getElementSelector(dom, n),
                 xpath |-> getElementXPath(dom, n)]
    /\ UNCHANGED <<tabs, window, retry, panel, dom, now, isActive, listeners, mutationObserver, domNodeCreationTimes,
                   selectedElements, highlightedElement, lastCall, sent, handled, scoreCall,
                   composed>>

\* the largest parent used by an insertion so far: insertions in breadth-first
\* order reach every tree shape once
LastParent == IF Len(dom) > Len(DeepDocument) THEN dom[Len(dom)].parent ELSE 2

SelInit ==
    /\ dom = DeepDocument
    /\ domNodeCreationTimes = [i \in 1..Len(DeepDocument) |-> -1]
    /\ InitInspector

SelInsert ==
    /\ synth.node = 0
    /\ Len(dom) < Len(DeepDocument) + MaxInsert
    /\ \E p \in Nodes(dom), frag \in SelectorFragments :
          p >= LastParent /\ InsertFragment(p, frag)

SelSynthesize == synth.node = 0 /\ \E n \in Nodes(dom) : Synthesize(n)

SelNext == SelInsert \/ SelSynthesize

SelSpec == SelInit /\ [][SelNext]_vars

-----------------------------------------------------------------------------
(* DOM writes of the inspector *)

HighlightClass == <<"element-highlight">>
SelectedClass == <<"element-selected-highlight">>

RECURSIVE Without(_, _)
Without(tokens, token) ==
    IF tokens = <<>> THEN <<>>
    ELSE (IF Head(tokens) = token THEN <<>> ELSE <<Head(tokens)>>) \o Without(Tail(tokens), token)

\* element.classList.remove(token) / element.classList.add(token)
ClassRemove(d, e, token) == [d EXCEPT ![e].cls = Without(@, token)]
ClassAdd(d, e, token) ==
    IF \E i \in 1..Len(d[e].cls) : d[e].cls[i] = token THEN d
    ELSE [d EXCEPT ![e].cls = Append(@, token)]

\* element.querySelector('.element-tooltip'): the first tooltip among the
\* descendants of e in document order, 0 if there is none
RECURSIVE FirstTooltip(_, _)
RECURSIVE FirstTooltipIn(_, _)
FirstTooltip(d, e) == FirstTooltipIn(d, InOrder(d, children(d, e)))
FirstTooltipIn(d, cs) ==
    IF cs = <<>> THEN 0
    ELSE IF Head(cs) < 0 THEN Head(cs)
    ELSE LET below == FirstTooltip(d, Head(cs))
         IN  IF below # 0 THEN below ELSE FirstTooltipIn(d, Tail(cs))

removeTooltip(d, element) ==
    LET tooltip == FirstTooltip(d, element)
    IN  IF tooltip = 0 THEN d
        ELSE [d EXCEPT ![-tooltip].tip = -1, ![-tooltip].tipText = <<>>]

addTooltip(d, element) ==
    IF FirstTooltip(d, element) # 0 THEN d
    ELSE [d EXCEPT ![element].tip = Len(d),
                   ![element].tipText = CssText(getElementSelector(d, element))]

-----------------------------------------------------------------------------
(* selectedElements: a Map, kept as the sequence of its values in insertion *)
(* order; the key of a value is its selector field                          *)

MapHas(map, key) == \E i \in 1..Len(map) : map[i].selector = key

RECURSIVE MapDelete(_, _)
MapDelete(map, key) ==
    IF map = <<>> THEN <<>>
    ELSE (IF Head(map).selector = key THEN <<>> ELSE <<Head(map)>>) \o MapDelete(Tail(map), key)

MapSet(map, value) ==
    IF MapHas(map, value.selector)
    THEN [i \in 1..Len(map) |-> IF map[i].selector = value.selector THEN value ELSE map[i]]
    ELSE Append(map, value)

-----------------------------------------------------------------------------
(* Start and stop of inspection (handleRuntimeMessage) *)

\* removeHighlight applied to document d: the document and highlightedElement after it
removeHighlight(d, hovered, map) ==
    IF hovered = 0 THEN [dom |-> d, highlightedElement |-> 0]
    ELSE IF ~MapHas(map, getElementSelector(d, hovered))
         THEN [dom |-> removeTooltip(ClassRemove(d, hovered, HighlightClass), hovered),
               highlightedElement |-> 0]
         ELSE [dom |-> d, highlightedElement |-> 0]

\* highlightElement applied to document d
highlightElement(d, element, map) ==
    LET selector == getElementSelector(d, element)
        cleared == ClassRemove(ClassRemove(d, element, HighlightClass), element, SelectedClass)
    IN  [dom |-> IF MapHas(map, selector)
                 THEN removeTooltip(ClassAdd(cleared, element, SelectedClass), element)
                 ELSE addTooltip(ClassAdd(cleared, element, HighlightClass), element),
         highlightedElement |-> element]

\* document.querySelector: the first match in document order, 0 = null
RECURSIVE Preorder(_, _)
RECURSIVE PreorderAll(_, _)
Preorder(d, e) == <<e>> \o PreorderAll(d, InOrder(d, children(d, e)))
PreorderAll(d, cs) ==
    IF cs = <<>> THEN <<>> ELSE Preorder(d, Head(cs)) \o PreorderAll(d, Tail(cs))

RECURSIVE FirstOf(_, _)
FirstOf(order, set) ==
    IF order = <<>> THEN 0
    ELSE IF Head(order) \in set THEN Head(order) ELSE FirstOf(Tail(order), set)

querySelector(d, sel) ==
    LET all == querySelectorAll(d, sel)
    IN  [threw |-> all.threw, element |-> FirstOf(Preorder(d, 1), all.elements)]

\* el.classList.remove(...tokens) on any element, a tooltip <div> included
RECURSIVE RemoveClasses(_, _, _)
RemoveClasses(d, e, tokens) ==
    IF e < 0 \/ tokens = <<>> THEN d
    ELSE RemoveClasses(ClassRemove(d, e, Head(tokens)), e, Tail(tokens))

InspectedEvents == {"mousemove", "click"}

\* message startInspect: startInspection, with startMutationObserver
StartInspect ==
    /\ Respond("startInspect", <<>>, "started")
    /\ IF isActive THEN UNCHANGED state
       ELSE
         /\ isActive' = TRUE
         /\ listeners' = listeners \cup InspectedEvents
         /\ mutationObserver' = TRUE
         /\ UNCHANGED <<window, retry, panel, dom, now, domNodeCreationTimes, selectedElements, highlightedElement,
                        lastCall, sent, synth, scoreCall, composed>>

\* message stopInspect: stopInspection, with stopMutationObserver
StopInspect ==
    /\ Respond("stopInspect", <<>>, "stopped")
    /\ IF ~isActive THEN UNCHANGED state
       ELSE
         /\ isActive' = FALSE
         /\ listeners' = listeners \ InspectedEvents
         /\ mutationObserver' = FALSE
         /\ LET after == removeHighlight(dom, highlightedElement, selectedElements)
            IN  dom' = after.dom /\ highlightedElement' = after.highlightedElement
         /\ UNCHANGED <<window, retry, panel, now, domNodeCreationTimes, selectedElements, lastCall, sent, synth,
                        scoreCall, composed>>

\* resetInspection's forEach over the records: the document after it, or
\* threw when document.querySelector rejected a stored selector
RECURSIVE ResetLoop(_, _)
ResetLoop(d, map) ==
    IF map = <<>> THEN [dom |-> d, threw |-> FALSE]
    ELSE LET found == querySelector(d, Head(map).selector)
         IN  IF found.threw THEN [dom |-> d, threw |-> TRUE]
             ELSE IF found.element = 0 THEN ResetLoop(d, Tail(map))
             ELSE ResetLoop(removeTooltip(RemoveClasses(d, found.element, <<SelectedClass>>),
                                          found.element),
                            Tail(map))

ResetInspect_Stops ==
    /\ Respond("resetInspect", <<>>, "reset")
    /\ isActive' = FALSE
    /\ listeners' = listeners \ InspectedEvents
    /\ mutationObserver' = FALSE
    /\ selectedElements' = <<>>
    /\ sent' = [action |-> "selectionCleared", elements |-> <<>>]
    /\ UNCHANGED <<window, retry, panel, dom, now, domNodeCreationTimes, highlightedElement, lastCall, synth,
                   scoreCall, composed>>

\* message resetInspect: resetInspection; an exception is caught by
\* handleRuntimeMessage, which keeps what was written before it
ResetInspect ==
    LET loop == ResetLoop(dom, selectedElements)
    IN  IF loop.threw
        THEN /\ Respond("resetInspect", <<>>, "error")
             /\ dom' = loop.dom
             /\ UNCHANGED <<window, retry, panel, now, isActive, listeners, mutationObserver, domNodeCreationTimes,
                            selectedElements, highlightedElement, lastCall, sent, synth,
                            scoreCall, composed>>
        ELSE /\ Respond("resetInspect", <<>>, "reset")
             /\ LET after == removeHighlight(loop.dom, highlightedElement, <<>>)
                IN  dom' = after.dom /\ highlightedElement' = after.highlightedElement
             /\ selectedElements' = <<>>
             /\ sent' = [action |-> "selectionCleared", elements |-> <<>>]
             /\ UNCHANGED <<window, retry, panel, now, isActive, listeners, mutationObserver, domNodeCreationTimes,
                            lastCall, synth, scoreCall, composed>>

\* message removeHighlight: removeSpecificHighlight(selector)
RemoveHighlight(selector) ==
    LET found == querySelector(dom, selector)
    IN  IF found.threw
        THEN Respond("removeHighlight", selector, "error") /\ UNCHANGED state
        ELSE IF found.element = 0
        THEN Respond("removeHighlight", selector, "removed") /\ UNCHANGED state
        ELSE /\ RespondUpdated("removeHighlight", selector, "removed")
             /\ dom' = removeTooltip(
                           RemoveClasses(dom, found.element, <<HighlightClass, SelectedClass>>),
                           found.element)
             /\ highlightedElement' =
                    IF highlightedElement = found.element THEN 0 ELSE highlightedElement
             /\ selectedElements' = MapDelete(selectedElements, selector)
             /\ sent' = [action |-> "updateSelectedElements", elements |-> selectedElements']
             /\ UNCHANGED <<window, retry, panel, now, isActive, listeners, mutationObserver, domNodeCreationTimes,
                            lastCall, synth, scoreCall, composed>>

ClearAll_ObserverLeft ==
    /\ Respond("clearAll", <<>>, "cleared")
    /\ isActive' = FALSE
    /\ selectedElements' = <<>>
    /\ listeners' = listeners \ InspectedEvents
    /\ UNCHANGED <<window, retry, panel, dom, now, mutationObserver, domNodeCreationTimes, highlightedElement,
                   lastCall, sent, synth, scoreCall, composed>>

\* message clearAll: clearAllStates
ClearAll ==
    /\ Respond("clearAll", <<>>, "cleared")
    /\ isActive' = FALSE
    /\ mutationObserver' = FALSE
    /\ selectedElements' = <<>>
    /\ dom' = [n \in Nodes(dom) |->
                  [dom[n] EXCEPT !.cls = Without(Without(@, HighlightClass), SelectedClass),
                                 !.tip = -1, !.tipText = <<>>]]
    /\ listeners' = listeners \ InspectedEvents
    /\ UNCHANGED <<window, retry, panel, now, domNodeCreationTimes, highlightedElement, lastCall, sent, synth,
                   scoreCall, composed>>

\* a mousemove event over element: dispatched to the throttled handleMouseMove
\* when it is registered
MouseMove(element) ==
    /\ element \in Nodes(dom)
    /\ handled' = NoRequest
    /\ UNCHANGED tabs
    /\ IF "mousemove" \notin listeners \/ now - lastCall < 50 THEN UNCHANGED state
       ELSE /\ lastCall' = now
            /\ IF ~isActive \/ element = highlightedElement
               THEN UNCHANGED <<dom, highlightedElement>>
               ELSE LET removed == removeHighlight(dom, highlightedElement, selectedElements)
                        after == highlightElement(removed.dom, element, selectedElements)
                    IN  dom' = after.dom /\ highlightedElement' = after.highlightedElement
            /\ UNCHANGED <<window, retry, panel, now, isActive, listeners, mutationObserver, domNodeCreationTimes,
                           selectedElements, sent, synth, scoreCall, composed>>

-----------------------------------------------------------------------------
(* handleElementClick *)

\* element.className
RECURSIVE className(_)
className(tokens) ==
    IF tokens = <<>> THEN <<>>
    ELSE IF Len(tokens) = 1 THEN Head(tokens)
    ELSE Head(tokens) \o <<" ">> \o className(Tail(tokens))

\* the isDynamic flag computed for a new selection
IsDynamic_Inclusive(d, element, times, time) ==
    \/ times[element] # -1 /\ time - times[element] <= 2000
    \/ TestDigitRun(idOf(d, element))
    \/ TestDigitRun(className(classList(d, element)))

IsDynamic(d, element, times, time) ==
    \/ times[element] # -1 /\ time - times[element] < 2000
    \/ TestDigitRun(idOf(d, element))
    \/ TestDigitRun(className(classList(d, element)))

\* the value stored for a new selection; node is history (the element the
\* record was made for).  The fields xpath, name, html and attributes are
\* not read back by the inspector.
SelectionRecord(d, element, selector, isDynamic) ==
    [selector |-> selector,
     playwrightLocator |-> getPlaywrightLocator(d, element, isDynamic),
     seleniumLocator |-> getSeleniumLocator(d, element, isDynamic),
     isDynamic |-> isDynamic,
     node |-> element]

\* handleElementClick past its isActive test, the target being element
handleElementClick(element) ==
    /\ LET selector == getElementSelector(dom, element)
       IN  IF MapHas(selectedElements, selector)
           THEN /\ selectedElements' = MapDelete(selectedElements, selector)
                /\ IF highlightedElement = element
                   THEN /\ dom' = removeTooltip(
                                      ClassRemove(ClassRemove(dom, element, SelectedClass),
                                                  element, HighlightClass), element)
                        /\ highlightedElement' = 0
                   ELSE /\ dom' = ClassRemove(dom, element, SelectedClass)
                        /\ UNCHANGED highlightedElement
           ELSE /\ selectedElements' =
                      MapSet(selectedElements,
                             SelectionRecord(dom, element, selector,
                                 IsDynamic(dom, element, domNodeCreationTimes, now)))
                /\ dom' = removeTooltip(
                              ClassRemove(ClassAdd(dom, element, SelectedClass),
                                          element, HighlightClass), element)
                /\ highlightedElement' = 0
    /\ sent' = [action |-> "updateSelectedElements", elements |-> selectedElements']
    /\ UNCHANGED <<window, retry, panel, now, isActive, listeners, mutationObserver, domNodeCreationTimes,
                   lastCall, synth, scoreCall, composed>>

Click_Undetached(element) ==
    /\ element \in Nodes(dom)
    /\ handled' = NoRequest
    /\ tabs' = sendMessage(tabs)
    /\ handleElementClick(element)

\* a click event on element: dispatched to handleElementClick when it is
\* registered (capture phase on document)
Click(element) ==
    /\ element \in Nodes(dom)
    /\ handled' = NoRequest
    /\ IF "click" \notin listeners \/ ~isActive THEN UNCHANGED <<state, tabs>>
       ELSE handleElementClick(element) /\ tabs' = sendMessage(tabs)

\* the click does not add a record beyond the bound
RoomFor(bound, element) ==
    \/ ~isActive
    \/ MapHas(selectedElements, getElementSelector(dom, element))
    \/ Len(selectedElements) < bound

-----------------------------------------------------------------------------
(* The inspected page *)

PageFragments ==
    { << Element(0, "div", <<>>, <<>>, <<>>, <<>>),
         Element(1, "span", <<>>, <<>>, <<>>, <<"x">>) >>,
      << Element(0, "div", <<"i", "1", "2", "3", "4">>, <<>>, <<>>, <<>>) >>,
      << Element(0, "p", <<>>, << <<"c", "9", "9", "9", "9">> >>, <<>>, <<>>) >> }

Init ==
    /\ dom = EmptyDocument
    /\ domNodeCreationTimes = [i \in 1..Len(EmptyDocument) |-> -1]
    /\ InitInspector

PageInsert ==
    \E p \in Nodes(dom), frag \in PageFragments :
        /\ Len(dom) + Len(frag) <= Len(EmptyDocument) + MaxPageNodes
        /\ InsertFragment(p, frag)

\* half a second passes
Tick ==
    /\ now < 1000 + 500 * MaxTicks
    /\ now' = now + 500
    /\ handled' = NoRequest
    /\ UNCHANGED <<tabs, window, retry, panel, dom, isActive, listeners, mutationObserver, domNodeCreationTimes, selectedElements,
                   highlightedElement, lastCall, sent, synth, scoreCall, composed>>

\* the inspector driven without pointer movement or messages other than
\* start and stop: insertions, the clock and clicks
TrackNext ==
    \/ StartInspect
    \/ StopInspect
    \/ PageInsert
    \/ Tick
    \/ \E element \in Nodes(dom) \ {1} : RoomFor(MaxSelected, element) /\ Click(element)

TrackSpec == Init /\ [][TrackNext]_vars

\* the elements a page inserts while the user hovers and selects
HoverFragments ==
    { << Element(0, "p", <<>>, <<>>, <<>>, <<"x">>) >> }

HoverInsert ==
    \E p \in Nodes(dom), frag \in HoverFragments :
        /\ Len(dom) + Len(frag) <= Len(EmptyDocument) + MaxHoverNodes
        /\ InsertFragment(p, frag)

\* the pointer rests: 50 ms pass
Rest ==
    /\ now < 1000 + 50 * MaxRests
    /\ now' = now + 50
    /\ handled' = NoRequest
    /\ UNCHANGED <<tabs, window, retry, panel, dom, isActive, listeners, mutationObserver, domNodeCreationTimes,
                   selectedElements, highlightedElement, lastCall, sent, synth, scoreCall,
                   composed>>

\* runtime messages, pointer events and page insertions in any order
Next ==
    \/ StartInspect
    \/ StopInspect
    \/ ResetInspect
    \/ \E i \in 1..Len(selectedElements) : RemoveHighlight(selectedElements[i].selector)
    \/ ClearAll
    \/ HoverInsert
    \/ Rest
    \/ \E element \in Nodes(dom) \ {1} : MouseMove(element)
    \/ \E element \in Nodes(dom) \ {1} : RoomFor(MaxRecords, element) /\ Click(element)

Spec == Init /\ [][Next]_vars

-----------------------------------------------------------------------------
(* The side panel (sidepanel.js, codegenerate.js).  An element object is a  *)
(* record whose domain is the set of its defined properties.  received is   *)
(* history: the elements of the message the panel last took in.             *)

\* request.elements.map(element => ({selector, name, xpath, html, attributes}))
PanelElement(element) == [f \in DOMAIN element \cap {"selector"} |-> element[f]]

Delete(object, property) == [f \in DOMAIN object \ {property} |-> object[f]]

\* sanitizeDOM keeps each element's properties and copies both locators; a
\* property whose value is undefined is left out by JSON.stringify
sanitizeDOM(elements) ==
    [i \in 1..Len(elements) |-> [f \in DOMAIN elements[i] |-> elements[i][f]]]

\* the locator filter of handleGenerateClick
FilterLocators(el, selectedTool) ==
    LET withoutPlaywright ==
            IF selectedTool # "playwright" THEN Delete(el, "playwrightLocator") ELSE el
    IN  IF selectedTool # "selenium"
        THEN Delete(withoutPlaywright, "seleniumLocator") ELSE withoutPlaywright

AutomationTools == {"playwright", "selenium"}

\* the panel's runtime.onMessage listener takes in the updateSelectedElements
\* message the content script sent last
PanelReceive ==
    /\ tabs.update
    /\ sent.action = "updateSelectedElements"
    /\ tabs' = [tabs EXCEPT !.update = FALSE]
    /\ panel' = [panel EXCEPT
                   !.currentElements = [i \in 1..Len(sent.elements) |->
                                           PanelElement(sent.elements[i])],
                   !.received = sent.elements]
    /\ UNCHANGED <<window, retry, dom, now, isActive, listeners, mutationObserver,
                   domNodeCreationTimes, selectedElements, highlightedElement, lastCall,
                   sent, handled, synth,
                   scoreCall, composed>>

\* a click on Generate: handleGenerateClick from the settings read from
\* storage up to promptPayload.domContent.  It passes the three early
\* returns, saves the buttons' states and disables the four buttons; one
\* generation runs at a time.
GenerateClick(automationTool, sanitizePii) ==
    /\ ~panel.disabled["generate"]
    /\ ~panel.generating
    /\ Len(panel.currentElements) > 0
    /\ LET elementsToProcess ==
               IF sanitizePii THEN sanitizeDOM(panel.currentElements)
               ELSE panel.currentElements
       IN  panel' = [panel EXCEPT
                       !.btnStates = panel.disabled,
                       !.disabled = [b \in Buttons |-> TRUE],
                       !.generating = TRUE,
                       !.tool = automationTool,
                       !.domContent = [i \in 1..Len(elementsToProcess) |->
                                          FilterLocators(elementsToProcess[i], automationTool)]]
    /\ UNCHANGED <<window, retry, tabs, dom, now, isActive, listeners, mutationObserver,
                   domNodeCreationTimes, selectedElements, highlightedElement, lastCall,
                   sent, handled, synth,
                   scoreCall, composed>>

\* the finally block of handleGenerateClick: the generation has ended, with
\* a result or an error, and the saved states go back to the buttons
GenerateFinally ==
    /\ panel.generating
    /\ panel' = [panel EXCEPT !.disabled = panel.btnStates, !.generating = FALSE]
    /\ UNCHANGED <<window, retry, tabs, dom, now, isActive, listeners, mutationObserver,
                   domNodeCreationTimes, selectedElements, highlightedElement, lastCall,
                   sent, handled, synth,
                   scoreCall, composed>>

\* selections reaching the side panel and a click on Generate
PanelNext ==
    \/ StartInspect
    \/ HoverInsert
    \/ \E element \in Nodes(dom) \ {1} : RoomFor(MaxPanelRecords, element) /\ Click(element)
    \/ PanelReceive
    \/ \E tool \in AutomationTools, sanitizePii \in BOOLEAN : GenerateClick(tool, sanitizePii)
    \/ GenerateFinally

PanelSpec == Init /\ [][PanelNext]_vars

-----------------------------------------------------------------------------
(* The side panel's buttons and its requests to the content script.  The    *)
(* callback of a chrome.tabs.query and the callback of a tabs.sendMessage   *)
(* (or the continuation of an awaited one) are closures: kind names the     *)
(* handler that made it, index and selector are what it captured.  Indices  *)
(* count from 1 where the script's count from 0.                            *)

MaxPending == 3         \* closures of the side panel pending at once
MaxRemoveRecords == 2   \* selection records held at once (RemoveSpec)
MaxRemovals == 1        \* removals through the side panel pending at once (RemoveSpec)
MaxButtonRecords == 1   \* selection records held at once (ButtonSpec)

Closure(kind, index, selector) == [kind |-> kind, index |-> index, selector |-> selector]

\* the closures waiting for chrome.tabs.query or for a response
Pending == Len(tabs.queries) + Len(panel.callbacks)

\* chrome.tabs.query({active: true, currentWindow: true}, callback)
query(channel, callback) == [channel EXCEPT !.queries = Append(@, callback)]

\* the action of the message a query callback sends
MessageOf(kind) ==
    CASE kind = "inspect" -> "startInspect"
      [] kind = "stop" -> "stopInspect"
      [] kind = "reset" -> "resetInspect"
      [] kind = "remove" -> "removeHighlight"

\* array.splice(index, 1)
splice(array, index) ==
    [i \in 1..(Len(array) - (IF index \in 1..Len(array) THEN 1 ELSE 0)) |->
        IF i < index THEN array[i] ELSE array[i + 1]]

\* a click on Inspect
InspectClick ==
    /\ ~panel.disabled["inspect"]
    /\ tabs' = query(tabs, Closure("inspect", 0, <<>>))
    /\ UNCHANGED <<panel, window, retry, handled, content>>

\* stopInspection() of the side panel, before its chrome.tabs.query
stopInspectionButtons(p) ==
    [p EXCEPT !.isInspecting = FALSE,
              !.disabled = [@ EXCEPT !["inspect"] = FALSE, !["stop"] = TRUE,
                                     !["generate"] = FALSE]]

\* a click on Stop
StopClick ==
    /\ ~panel.disabled["stop"]
    /\ panel' = stopInspectionButtons(panel)
    /\ tabs' = query(tabs, Closure("stop", 0, <<>>))
    /\ UNCHANGED <<window, retry, handled, content>>

\* a click on Reset, answered by the user in the confirm dialog
ResetClick(confirmReset) ==
    /\ ~panel.disabled["reset"]
    /\ IF confirmReset
       THEN /\ panel' = stopInspectionButtons(panel)
            /\ tabs' = query(query(tabs, Closure("stop", 0, <<>>)), Closure("reset", 0, <<>>))
       ELSE UNCHANGED <<panel, tabs>>
    /\ UNCHANGED <<window, retry, handled, content>>

\* a click on the remove mark of the element rendered at index
RemoveClick(index) ==
    /\ index \in 1..Len(panel.currentElements)
    /\ tabs' = query(tabs, Closure("remove", index, panel.currentElements[index].selector))
    /\ UNCHANGED <<panel, window, retry, handled, content>>

\* chrome.tabs.query calls back with the inspected tab: the message goes to
\* the tab and its callback waits for the response
QueryCallback ==
    /\ tabs.queries # <<>>
    /\ LET callback == Head(tabs.queries)
       IN  /\ tabs' = [tabs EXCEPT
                          !.queries = Tail(@),
                          !.requests = Append(@, Handled(MessageOf(callback.kind),
                                                          callback.selector, ""))]
           /\ panel' = [panel EXCEPT !.callbacks = Append(@, callback)]
    /\ UNCHANGED <<window, retry, handled, content>>

\* the request at the head of the channel is the one the content script
\* handles next
Requested(action) == tabs.requests # <<>> /\ Head(tabs.requests).action = action

\* a response reaches the side panel (chrome.runtime.lastError is not set)
ResponseCallback ==
    /\ tabs.responses # <<>>
    /\ panel.callbacks # <<>>
    /\ tabs' = [tabs EXCEPT !.responses = Tail(@)]
    /\ LET callback == Head(panel.callbacks)
           rest == [panel EXCEPT !.callbacks = Tail(@)]
       IN  panel' =
             CASE callback.kind = "inspect" ->
                    [rest EXCEPT !.isInspecting = TRUE,
                                 !.disabled = [@ EXCEPT !["inspect"] = TRUE, !["stop"] = FALSE,
                                                        !["generate"] = TRUE]]
               [] callback.kind = "stop" -> rest
               [] callback.kind = "reset" -> [rest EXCEPT !.currentElements = <<>>]
               [] callback.kind = "remove" ->
                    [rest EXCEPT !.currentElements = splice(@, callback.index)]
    /\ UNCHANGED <<window, retry, handled, content>>

\* selections, and removals through the side panel
RemoveNext ==
    \/ StartInspect
    \/ HoverInsert
    \/ \E element \in Nodes(dom) \ {1} : RoomFor(MaxRemoveRecords, element) /\ Click(element)
    \/ PanelReceive
    \/ \E index \in 1..MaxRemoveRecords : Pending < MaxRemovals /\ RemoveClick(index)
    \/ QueryCallback
    \/ Requested("removeHighlight") /\ RemoveHighlight(Head(tabs.requests).selector)
    \/ ResponseCallback

RemoveSpec == Init /\ [][RemoveNext]_vars

\* the four buttons of the side panel, clicked while earlier callbacks are
\* pending
ButtonNext ==
    \/ Pending < MaxPending /\ InspectClick
    \/ Pending < MaxPending /\ StopClick
    \/ \E confirmReset \in BOOLEAN : Pending + 2 <= MaxPending /\ ResetClick(confirmReset)
    \/ QueryCallback
    \/ Requested("startInspect") /\ StartInspect
    \/ Requested("stopInspect") /\ StopInspect
    \/ Requested("resetInspect") /\ ResetInspect
    \/ ResponseCallback
    \/ \E element \in Nodes(dom) \ {1} : RoomFor(MaxButtonRecords, element) /\ Click(element)
    \/ PanelReceive
    \/ \E tool \in AutomationTools, sanitizePii \in BOOLEAN : GenerateClick(tool, sanitizePii)
    \/ GenerateFinally

ButtonSpec == Init /\ [][ButtonNext]_vars

-----------------------------------------------------------------------------
(* Injection of the content script, runtime messages and suspend events *)

RuntimeActions == {"startInspect", "stopInspect", "resetInspect", "clearAll", "other"}

\* chrome.scripting.executeScript runs content.js in the page once more;
\* onSuspend: chrome.runtime.onSuspend is defined for the script
Inject(onSuspend) ==
    /\ window.elementInspector # 0 \/ Len(window.inspectors) < MaxInspectors
    /\ window' = RunScript(
                     [window EXCEPT !.inspectors =
                         [i \in DOMAIN @ |-> [@[i] EXCEPT !.response = ""]]],
                     onSuspend)
    /\ UNCHANGED <<content, panel, retry, handled, tabs>>

\* a runtime message reaches the page: every registered listener handles it
RuntimeMessage(action) ==
    /\ window' = [window EXCEPT !.inspectors =
                     [i \in DOMAIN @ |->
                         IF @[i].onMessage THEN handleRuntimeMessage(@[i], action)
                         ELSE [@[i] EXCEPT !.response = ""]]]
    /\ UNCHANGED <<content, panel, retry, handled, tabs>>

\* chrome.runtime.onSuspend fires: every listener registered by init runs
Suspend ==
    /\ window' = [elementInspector |->
                      IF \E i \in DOMAIN window.inspectors : window.inspectors[i].onSuspend
                      THEN 0 ELSE window.elementInspector,
                  inspectors |->
                      [i \in DOMAIN window.inspectors |->
                          [(IF window.inspectors[i].onSuspend
                            THEN clearAllStates(window.inspectors[i])
                            ELSE window.inspectors[i]) EXCEPT !.response = ""]]]
    /\ UNCHANGED <<content, panel, retry, handled, tabs>>

InjectNext ==
    \/ \E onSuspend \in BOOLEAN : Inject(onSuspend)
    \/ \E action \in RuntimeActions : RuntimeMessage(action)
    \/ Suspend

InjectSpec == Init /\ [][InjectNext]_vars

-----------------------------------------------------------------------------
(* fetchWithRetry (api-utils.js) around the request of GroqAPI.sendMessage. *)
(* An error message is a sequence of characters and of words, a word        *)
(* standing for that run of characters; none of the words below contains    *)
(* '429', '50', 'Rate Limit' or 'network' except as written.                *)

\* String.prototype.includes
Includes(text, part) ==
    \E i \in 1..(Len(text) - Len(part) + 1) : SubSeq(text, i, i + Len(part) - 1) = part

Error(name, message) == [kind |-> "error", name |-> name, message |-> message]

\* how the request function ends: [kind |-> "ok"], a response with an HTTP
\* status that is not ok, fetch rejecting because the connection failed, or
\* fetch rejecting because the controller aborted it after timeoutMs
HttpStatuses == {401, 429, 500, 503, 521}
Outcomes ==
    {[kind |-> k, status |-> 0] : k \in {"ok", "network", "timeout"}}
    \cup {[kind |-> "http", status |-> st] : st \in HttpStatuses}

\* the error the request function throws (groq-api.js, !response.ok; fetch)
ThrownBy(outcome) ==
    IF outcome.kind = "timeout"
    THEN Error("AbortError", <<"signal is aborted without reason">>)
    ELSE IF outcome.kind = "network"
    THEN Error("TypeError", <<"Failed to fetch">>)
    ELSE IF outcome.status = 401
    THEN Error("Error", <<"Authentication Error: Invalid API Key. Please check your settings.">>)
    ELSE IF outcome.status = 429
    THEN Error("Error", <<"Rate Limit", " Exceeded: You are sending requests too quickly. ",
                          "Please wait a moment.">>)
    ELSE IF outcome.status >= 500
    THEN Error("Error", <<"Groq Service Error: ">> \o Decimal(outcome.status)
                        \o <<". The service might be currently unavailable.">>)
    ELSE Error("Error", <<"API call failed: ">> \o Decimal(outcome.status))

isTimeout(err) == err.name = "AbortError"
isRateLimit(err) ==
    Includes(err.message, <<"4", "2", "9">>) \/ Includes(err.message, <<"Rate Limit">>)

isRetryable(err) ==
    \/ isTimeout(err)
    \/ isRateLimit(err)
    \/ Includes(err.message, <<"5", "0">>)
    \/ Includes(err.message, <<"network">>)

RECURSIVE Pow2(_)
Pow2(k) == IF k = 0 THEN 1 ELSE 2 * Pow2(k - 1)

TimedOut == Error("Error", <<"Request timed out after 20s. The server might be busy or ",
                             "your connection dropped.">>)

\* fetchWithRetry(fn, { maxRetries }) is called: the loop starts
FetchCall(maxRetries) ==
    /\ retry.pc = "idle"
    /\ retry' = [NoFetch EXCEPT !.maxRetries = maxRetries,
                               !.pc = IF 0 < maxRetries THEN "calling" ELSE "returned"]
    /\ UNCHANGED <<content, panel, window, handled, tabs>>

\* await fn(controller.signal) settles: the rest of the loop body
Settle(outcome) ==
    /\ retry.pc = "calling"
    /\ IF outcome.kind = "ok"
       THEN retry' = [retry EXCEPT !.calls = Append(@, outcome),
                                   !.pc = "returned", !.result = outcome]
       ELSE LET err == ThrownBy(outcome)
            IN  IF retry.attempt < retry.maxRetries - 1 /\ isRetryable(err)
                THEN retry' = [retry EXCEPT !.calls = Append(@, outcome),
                                            !.delays = Append(@, Pow2(retry.attempt) * 600),
                                            !.pc = "waiting"]
                ELSE retry' = [retry EXCEPT !.calls = Append(@, outcome),
                                            !.pc = "thrown",
                                            !.result = IF isTimeout(err) THEN TimedOut ELSE err]
    /\ UNCHANGED <<content, panel, window, handled, tabs>>

\* the delay timer fires: attempt++ and the loop test
DelayElapsed ==
    /\ retry.pc = "waiting"
    /\ retry' = [retry EXCEPT !.attempt = @ + 1,
                             !.pc = IF retry.attempt + 1 < retry.maxRetries
                                    THEN "calling" ELSE "returned"]
    /\ UNCHANGED <<content, panel, window, handled, tabs>>

RetryNext ==
    \/ \E maxRetries \in 1..MaxRetries : FetchCall(maxRetries)
    \/ \E outcome \in Outcomes : Settle(outcome)
    \/ DelayElapsed

RetrySpec == Init /\ [][RetryNext]_vars

-----------------------------------------------------------------------------
(* The scorer and the composers applied to chosen inputs *)

ScoreTypes == {"testid", "role", "label", "placeholder", "text", "id", "name", "class",
               "css", "xpath", "other"}
ScoreAlphabet == {"1", "d", "\\", ">", ":nth-of-type"}
ScoreValues == UNION {[1..n -> ScoreAlphabet] : n \in 0..MaxValueLen}

\* calculateResilienceScore(type, value) is called
ScoreCall(type, value) ==
    /\ scoreCall' = [type |-> type, value |-> value,
                     result |-> calculateResilienceScore(type, value)]
    /\ UNCHANGED <<tabs, window, retry, panel, dom, now, isActive, listeners, mutationObserver, domNodeCreationTimes,
                   selectedElements, highlightedElement, lastCall, sent, handled, synth,
                   composed>>

\* getPlaywrightLocator(n, isDynamic) and getSeleniumLocator(n, isDynamic)
\* are called; the candidate lists they built are kept beside the results
ComposeCall(n, isDyn) ==
    /\ n \in Nodes(dom)
    /\ composed' = [node |-> n, isDynamic |-> isDyn,
                    semanticParent |-> getSemanticParent(dom, n),
                    playwrightCandidates |-> PlaywrightCandidates(dom, n),
                    seleniumCandidates |-> SeleniumCandidates(dom, n),
                    playwrightLocator |-> getPlaywrightLocator(dom, n, isDyn),
                    seleniumLocator |-> getSeleniumLocator(dom, n, isDyn)]
    /\ UNCHANGED <<tabs, window, retry, panel, dom, now, isActive, listeners, mutationObserver, domNodeCreationTimes,
                   selectedElements, highlightedElement, lastCall, sent, handled, synth,
                   scoreCall>>

ComposeFragments ==
    { << Element(0, "label", <<>>, <<>>, <<>>, <<"P", "I", "N">>) >>,
      << Element(0, "input", <<>>, <<>>,
                 ("name" :> <<"p", "i", "n">>) @@ ("placeholder" :> <<"P", "I", "N">>),
                 <<>>) >>,
      << Element(0, "input", <<"i", "1", "2", "3", "4">>, <<>>,
                 ("name" :> <<"z", "i", "p">>) @@ ("placeholder" :> <<"Z", "i", "p">>)
                 @@ ("aria-label" :> <<"Z", "i", "p">>) @@ ("data-testid" :> <<"z">>),
                 <<>>) >>,
      << Element(0, "input", <<>>, <<>>,
                 ("placeholder" :> <<"Z", "'", "p">>) @@ ("aria-label" :> <<"Z", "'", "p">>),
                 <<>>) >>,
      << Element(0, "form", <<>>, <<>>, ("data-testid" :> <<"f">>), <<>>),
         Element(1, "button", <<>>, <<>>, ("data-testid" :> <<"g", "o">>), <<"G", "o">>) >>,
      << Element(0, "section", <<>>, <<>>, <<>>, <<>>) >>,
      << Element(0, "div", <<"s">>, << <<"c">> >>, ("aria-label" :> <<"A">>), <<"x">>) >> }

ComposeInit ==
    /\ dom = EmptyDocument
    /\ domNodeCreationTimes = [i \in 1..Len(EmptyDocument) |-> -1]
    /\ InitInspector

NothingCalled == composed.node = 0 /\ scoreCall.result = -1

ComposeInsert ==
    /\ NothingCalled
    /\ \E p \in Nodes(dom), frag \in ComposeFragments :
          /\ Len(dom) + Len(frag) <= Len(EmptyDocument) + MaxComposeNodes
          /\ InsertFragment(p, frag)

ComposeApply ==
    /\ NothingCalled
    /\ \E n \in Nodes(dom), isDyn \in BOOLEAN : ComposeCall(n, isDyn)

ScoreApply ==
    /\ NothingCalled
    /\ dom = EmptyDocument
    /\ \E type \in ScoreTypes, value \in ScoreValues : ScoreCall(type, value)

ComposeNext == ComposeInsert \/ ComposeApply \/ ScoreApply

ComposeSpec == ComposeInit /\ [][ComposeNext]_vars

-----------------------------------------------------------------------------
\* C1: the selector getElementSelector returned for a node either matches
\* exactly that node and no other, or it is the five-segment ancestry path
\* none of whose tested suffixes was unique (the depth bound was exhausted).
Suffix(path, k) == SubSeq(path, Len(path) - k + 1, Len(path))

DepthExhausted(n, sel) ==
    /\ Len(sel) = maxDepth
    /\ sel = AncestrySelector(dom, n)
    /\ \A k \in 2..maxDepth : ~isUniqueSelector(dom, Suffix(sel, k), n)

C1_UniqueOrDegraded ==
    synth.node # 0 =>
        \/ isUniqueSelector(dom, synth.sel, synth.node)
        \/ DepthExhausted(synth.node, synth.sel)

C1_Witness_Degraded ==
    synth.node # 0 /\ ~isUniqueSelector(dom, synth.sel, synth.node)

C1_Witness_Unique ==
    /\ synth.node # 0 /\ Len(synth.sel) = 3
    /\ isUniqueSelector(dom, synth.sel, synth.node)

-----------------------------------------------------------------------------
\* C2: for type id and class, a value containing a run of four or more digits
\* scores 10, strictly below the 70 (id) or 40 (class) of a value without one.
C2_DigitRunPenalty ==
    (scoreCall.result # -1 /\ scoreCall.type \in {"id", "class"}
        /\ TestDigitRun(scoreCall.value))
    => /\ scoreCall.result = 10
       /\ scoreCall.result < (IF scoreCall.type = "id" THEN 70 ELSE 40)

-----------------------------------------------------------------------------
\* C3: the Playwright string and the Selenium string of a node each carry the
\* wait-for-visible instruction (on the structural selector, 5000 ms; on the
\* primary locator, 5 s) when isDynamic is true, and no wait when it is false.
C3_DynamicWrap ==
    composed.node # 0 =>
        LET pw == composed.playwrightLocator
            se == composed.seleniumLocator
        IN  /\ pw.wait = composed.isDynamic
            /\ se.wait = composed.isDynamic
            /\ pw.wait => /\ pw.timeout = 5000
                          /\ pw.waitLit = EscapeSingleQuotes(
                                              CssText(getElementSelector(dom, composed.node)))
            /\ se.wait => se.seconds = 5 /\ se.waitOn = se.attempts[1]

C3_Witness_Dynamic ==
    /\ composed.node # 0 /\ composed.isDynamic
    /\ composed.playwrightLocator.wait /\ composed.seleniumLocator.wait

C3_Witness_Static ==
    /\ composed.node # 0 /\ ~composed.isDynamic
    /\ ~composed.playwrightLocator.wait /\ ~composed.seleniumLocator.wait

-----------------------------------------------------------------------------
(* A click that adds a selection record *)

NewSelection == Len(selectedElements') = Len(selectedElements) + 1
NewRecord == selectedElements'[Len(selectedElements')]

HasDigitRunClass(n) == \E i \in 1..Len(dom[n].cls) : TestDigitRun(dom[n].cls[i])

\* C4: the isDynamic flag of a record made by a click is true exactly when
\* the tracker holds an insertion time for the node less than 2000 ms before
\* the click, or the node's id or class contains a run of four or more digits.
C4_DynamicFlag ==
    [][NewSelection =>
          (NewRecord.isDynamic <=>
              \/ /\ domNodeCreationTimes[NewRecord.node] # -1
                 /\ now - domNodeCreationTimes[NewRecord.node] < 2000
              \/ TestDigitRun(dom[NewRecord.node].id)
              \/ HasDigitRunClass(NewRecord.node))]_vars

\* a node clicked exactly 2000 ms after its recorded insertion is not dynamic
C4_Witness_Boundary ==
    \E i \in 1..Len(selectedElements) :
        LET r == selectedElements[i]
        IN  /\ ~r.isDynamic
            /\ domNodeCreationTimes[r.node] # -1
            /\ now - domNodeCreationTimes[r.node] = 2000

C4_Witness_Recent ==
    \E i \in 1..Len(selectedElements) :
        LET r == selectedElements[i]
        IN  /\ r.isDynamic
            /\ domNodeCreationTimes[r.node] # -1
            /\ now - domNodeCreationTimes[r.node] = 1500
            /\ ~TestDigitRun(dom[r.node].id) /\ dom[r.node].cls = <<SelectedClass>>

C4_Witness_DigitRun ==
    \E i \in 1..Len(selectedElements) :
        LET r == selectedElements[i]
        IN  /\ r.isDynamic
            /\ domNodeCreationTimes[r.node] = -1
            /\ HasDigitRunClass(r.node)

-----------------------------------------------------------------------------
\* C5: every element that enters the body while inspection is active, the root
\* of an inserted fragment and the elements nested in it alike, has its
\* insertion time recorded; a node inserted 500 ms before it is selected is
\* flagged isDynamic and both locators carry the 5-second visibility wait.
C5_InsertionsTracked ==
    [][/\ isActive =>
             \A n \in Nodes(dom') \ Nodes(dom) : domNodeCreationTimes'[n] = now
       /\ (NewSelection /\ dom[NewRecord.node].insertedAt # -1
              /\ now - dom[NewRecord.node].insertedAt = 500)
          => /\ NewRecord.isDynamic
             /\ NewRecord.playwrightLocator.wait
             /\ NewRecord.playwrightLocator.timeout = 5000
             /\ NewRecord.seleniumLocator.wait
             /\ NewRecord.seleniumLocator.seconds = 5]_vars

-----------------------------------------------------------------------------
(* Reading a composed chain against the candidate list it was built from *)

GenerationIndex(candidates, str) == CHOOSE i \in 1..Len(candidates) : candidates[i].str = str
ScoreOf(candidates, str) == candidates[GenerationIndex(candidates, str)].score

\* chain: non-increasing scores, equal scores in generation order, and no
\* candidate left out scores more than a kept one
OrderedByScore(chain, candidates) ==
    /\ \A i \in 1..Len(chain) : \E k \in 1..Len(candidates) : candidates[k].str = chain[i]
    /\ \A i, j \in 1..Len(chain) :
          i < j => \/ ScoreOf(candidates, chain[i]) > ScoreOf(candidates, chain[j])
                   \/ /\ ScoreOf(candidates, chain[i]) = ScoreOf(candidates, chain[j])
                      /\ GenerationIndex(candidates, chain[i])
                            < GenerationIndex(candidates, chain[j])
    /\ \A k \in 1..Len(candidates) : candidates[k].score <= ScoreOf(candidates, chain[1])

BothChainsOrdered ==
    /\ OrderedByScore(composed.playwrightLocator.chain, composed.playwrightCandidates)
    /\ OrderedByScore(composed.seleniumLocator.attempts, composed.seleniumCandidates)

\* the composed node is an <input> directly after a <label> with text, has
\* a placeholder and no data-testid
LabelledInput(n) ==
    /\ n # 0 /\ tagName(dom, n) = "input"
    /\ previousElementSibling(dom, n) # 0
    /\ tagName(dom, previousElementSibling(dom, n)) = "label"
    /\ innerText(dom, previousElementSibling(dom, n)) # <<>>
    /\ getAttribute(dom, n, "placeholder") # <<>>
    /\ getAttribute(dom, n, "data-testid") = <<>>

NoNamingAttribute(n) ==
    \A a \in {"aria-label", "title", "alt"} : getAttribute(dom, n, a) = <<>>

PrimaryIsLabel ==
    /\ composed.playwrightLocator.chain[1].call.fn = "getByLabel"
    /\ ScoreOf(composed.playwrightCandidates, composed.playwrightLocator.chain[1]) = 85

\* C6 as claimed: both chains are ordered by score, and the primary Playwright
\* locator of every labelled input with a placeholder and no test-id is the
\* associated-label locator.
C6_Original ==
    composed.node # 0 =>
        /\ BothChainsOrdered
        /\ LabelledInput(composed.node) => PrimaryIsLabel

\* C6 (amended): both chains are ordered by score, descending, ties in
\* generation order, the primary being a candidate of maximal score; the
\* primary Playwright locator of a labelled input with a placeholder, no
\* test-id and no aria-label, title or alt attribute is the associated-label
\* locator (score 85).
C6_OrderedChains ==
    composed.node # 0 =>
        /\ BothChainsOrdered
        /\ (LabelledInput(composed.node) /\ NoNamingAttribute(composed.node))
              => PrimaryIsLabel

C6_Witness ==
    /\ LabelledInput(composed.node) /\ NoNamingAttribute(composed.node)
    /\ PrimaryIsLabel
    /\ Len(composed.playwrightLocator.chain) >= 2

-----------------------------------------------------------------------------
\* C7: the Playwright chain has at most three alternates and the Selenium
\* string at most two findElement attempts, and no alternate occurs twice.
NoRepeat(chain) == \A i, j \in 1..Len(chain) : i # j => chain[i] # chain[j]

C7_FallbackCardinality ==
    composed.node # 0 =>
        /\ Len(composed.playwrightLocator.chain) <= 3
        /\ Len(composed.seleniumLocator.attempts) <= 2
        /\ NoRepeat(composed.playwrightLocator.chain)
        /\ NoRepeat(composed.seleniumLocator.attempts)

C7_Witness ==
    /\ composed.node # 0
    /\ Len(composed.playwrightCandidates) >= 4 /\ Len(composed.playwrightLocator.chain) = 3
    /\ Len(composed.seleniumCandidates) = 3 /\ Len(composed.seleniumLocator.attempts) = 2

-----------------------------------------------------------------------------
\* C8: every score, returned by calculateResilienceScore for any type and
\* value or attached to a candidate by a composer, is an integer in 0..100.
C8_ScoreBounds ==
    /\ scoreCall.result # -1 => scoreCall.result \in 0..100
    /\ \A i \in 1..Len(composed.playwrightCandidates) :
          composed.playwrightCandidates[i].score \in 0..100
    /\ \A i \in 1..Len(composed.seleniumCandidates) :
          composed.seleniumCandidates[i].score \in 0..100

C8_Witness_Unknown ==
    scoreCall.type = "other" /\ scoreCall.value # <<>> /\ scoreCall.result = 0

C8_Witness_Composer ==
    \E i \in 1..Len(composed.playwrightCandidates) :
        /\ composed.playwrightCandidates[i].str.call.fn = "getByLabel"
        /\ composed.playwrightCandidates[i].score = 85

-----------------------------------------------------------------------------
\* C9: the By.id candidate of a node whose unique id has a run of four or
\* more digits is scored 10, and By.id is not the primary Selenium locator
\* (a name candidate at 65 or the structural selector at 15 or 30 precedes it).
C9_DynamicIdDemoted ==
    (composed.node # 0 /\ TestDigitRun(idOf(dom, composed.node)))
    => /\ \A i \in 1..Len(composed.seleniumCandidates) :
             composed.seleniumCandidates[i].str.call.fn = "By.id"
                => composed.seleniumCandidates[i].score = 10
       /\ composed.seleniumLocator.attempts[1].call.fn # "By.id"

-----------------------------------------------------------------------------
\* C10 as claimed: when the ancestor probe yields a qualifier every Playwright
\* candidate starts with it, the structural fallback included; without a
\* qualifier no candidate has a prefix.
C10_Original ==
    \A i \in 1..Len(composed.playwrightCandidates) :
        composed.playwrightCandidates[i].str.prefix = composed.semanticParent

IsStructuralFallback(candidates, i) == i = Len(candidates)

\* C10 (amended): when the ancestor probe yields a qualifier, every Playwright
\* candidate except the structural-selector fallback (test-id, label or
\* placeholder, role+name, leaf text) starts with it, and the structural
\* fallback never has a prefix; without a qualifier no candidate has one.
C10_PrefixedCandidates ==
    \A i \in 1..Len(composed.playwrightCandidates) :
        LET c == composed.playwrightCandidates[i]
        IN  IF IsStructuralFallback(composed.playwrightCandidates, i)
            THEN c.str.prefix = NoCall /\ c.str.call.fn = "locator"
            ELSE c.str.prefix = composed.semanticParent /\ c.str.call.fn # "locator"

C10_Witness ==
    /\ composed.semanticParent # NoCall
    /\ Len(composed.playwrightCandidates) >= 4

C10_Witness_NoContext ==
    /\ composed.node # 0 /\ composed.semanticParent = NoCall
    /\ Len(composed.playwrightCandidates) >= 3

-----------------------------------------------------------------------------
\* C11: when the relative-label probe and the ancestor probe both produce a
\* result for a node, the context prefix of its Playwright candidates is the
\* associated-label qualifier and not the ancestor-landmark qualifier.
C11_LabelPrefixPrecedence ==
    (composed.node # 0
        /\ getRelativeContext(dom, composed.node) # NoCall
        /\ composed.semanticParent # NoCall)
    => \A i \in 1..Len(composed.playwrightCandidates) :
          LET c == composed.playwrightCandidates[i]
          IN  c.str.prefix # NoCall
                 => /\ c.str.prefix = getRelativeContext(dom, composed.node)
                    /\ c.str.prefix # composed.semanticParent

-----------------------------------------------------------------------------
\* C12: whatever runtime messages have been handled, the mutation observer is
\* connected exactly when isActive is true; a start request while inspecting
\* and a stop request while idle change nothing of that.
C12_ObserverWhileActive == mutationObserver <=> isActive

C12_Witness_Cleared ==
    handled.action = "clearAll" /\ ~isActive /\ ~mutationObserver /\ highlightedElement # 0

C12_Witness_Started ==
    handled.action = "startInspect" /\ isActive /\ mutationObserver
        /\ selectedElements # <<>>

-----------------------------------------------------------------------------
\* C13: a stopInspect request leaves the selection records as they were, both
\* event handlers are detached once the inspector is idle, and a click or a
\* mousemove that occurs while it is idle changes nothing.
C13_StopKeepsRecords ==
    [][/\ handled'.action = "stopInspect" => selectedElements' = selectedElements
       /\ ~isActive' => listeners' \cap InspectedEvents = {}
       /\ (~isActive /\ \E element \in Nodes(dom) : Click(element) \/ MouseMove(element))
             => UNCHANGED state]_vars

C13_Witness ==
    /\ handled.action = "stopInspect" /\ handled.status = "stopped"
    /\ ~isActive /\ selectedElements # <<>>

-----------------------------------------------------------------------------
\* C14: a resetInspect request empties the selection-record map and leaves
\* isActive, the registered click and mousemove listeners and the mutation
\* observer as they were, in the idle and in the inspecting state.
C14_ResetKeepsMode ==
    [][handled'.action = "resetInspect"
          => /\ selectedElements' = <<>>
             /\ UNCHANGED <<isActive, listeners, mutationObserver>>]_vars

C14_Witness ==
    /\ handled.action = "resetInspect" /\ isActive /\ mutationObserver
    /\ listeners = InspectedEvents /\ selectedElements = <<>>
    /\ sent.action = "selectionCleared"

C14_Witness_Idle ==
    /\ handled.action = "resetInspect" /\ ~isActive /\ listeners = {}
    /\ sent.action = "selectionCleared" /\ selectedElements = <<>>

-----------------------------------------------------------------------------
(* The records made for one element *)

RecordsOf(map, element) == {i \in 1..Len(map) : map[i].node = element}
RecordSet(map, elements) == {map[i] : i \in UNION {RecordsOf(map, e) : e \in elements}}

\* C15: while inspection is active a click on an element that has a selection
\* record removes that record and a click on an element that has none adds
\* one, the records of the other elements staying as they were; no element
\* has two records at once.
C15_ClickToggles ==
    [][\A element \in Nodes(dom) :
          (isActive /\ Click(element))
          => /\ Cardinality(RecordsOf(selectedElements', element))
                   = (IF RecordsOf(selectedElements, element) = {} THEN 1 ELSE 0)
             /\ RecordSet(selectedElements', Nodes(dom) \ {element})
                   = RecordSet(selectedElements, Nodes(dom) \ {element})
             /\ \A other \in Nodes(dom) :
                   Cardinality(RecordsOf(selectedElements', other)) <= 1]_vars

-----------------------------------------------------------------------------
\* C16: once a removeHighlight message for a selector that keyed a record has
\* been handled, no record is keyed by that selector and the message last
\* sent is updateSelectedElements with exactly the remaining records.
C16_RemoveHighlight ==
    handled.action = "removeHighlight"
    => /\ ~MapHas(selectedElements, handled.selector)
       /\ sent = [action |-> "updateSelectedElements", elements |-> selectedElements]

-----------------------------------------------------------------------------
\* C17: every element of the prompt payload carries the locator of the
\* configured automation tool (playwrightLocator for Playwright,
\* seleniumLocator for Selenium), equal to the one the content script sent
\* for that element, and does not carry the other tool's locator.
ToolLocator(tool) == IF tool = "playwright" THEN "playwrightLocator" ELSE "seleniumLocator"

C17_ToolLocatorForwarded ==
    \A i \in 1..Len(panel.domContent) :
        LET el == panel.domContent[i]
        IN  /\ ToolLocator(panel.tool) \in DOMAIN el
            /\ el[ToolLocator(panel.tool)] = panel.received[i][ToolLocator(panel.tool)]
            /\ \A other \in AutomationTools \ {panel.tool} : ToolLocator(other) \notin DOMAIN el

-----------------------------------------------------------------------------
\* C18: when document.querySelectorAll rejects the id selector synthesized
\* for a node as invalid syntax, the uniqueness test answers false, and
\* getElementSelector goes on to the class, attribute and ancestry strategies
\* and returns a selector the document query accepts.
C18_InvalidSelectorSkipped ==
    (synth.node # 0 /\ idOf(dom, synth.node) # <<>>
        /\ querySelectorAll(dom, IdSelector(idOf(dom, synth.node))).threw)
    => /\ ~isUniqueSelector(dom, IdSelector(idOf(dom, synth.node)), synth.node)
       /\ synth.sel # IdSelector(idOf(dom, synth.node))
       /\ synth.sel = ClassLoop(dom, synth.node, 1)
       /\ synth.sel # <<>> /\ ~querySelectorAll(dom, synth.sel).threw

C18_Witness ==
    /\ synth.node # 0 /\ idOf(dom, synth.node) # <<>>
    /\ querySelectorAll(dom, IdSelector(idOf(dom, synth.node))).threw
    /\ synth.sel[Len(synth.sel)].attr # <<>>

-----------------------------------------------------------------------------
(* The fixed scores *)

FixedScore(type) ==
    CASE type = "testid" -> 100
      [] type = "role" -> 90
      [] type = "placeholder" -> 80
      [] type = "name" -> 65
      [] type = "text" -> 60

\* C19 as claimed: calculateResilienceScore returns, whatever the value, 100
\* for testid, 90 for role, 85 for label, 80 for placeholder, 65 for name and
\* 60 for text.
C19_Original ==
    scoreCall.result # -1 =>
        /\ scoreCall.type \in {"testid", "role", "placeholder", "name", "text"}
              => scoreCall.result = FixedScore(scoreCall.type)
        /\ scoreCall.type = "label" => scoreCall.result = 85

\* C19 (amended): calculateResilienceScore returns, whatever the value, 100
\* for testid, 90 for role, 80 for placeholder, 65 for name and 60 for text;
\* it has no case for label and returns 0 for it, the 85 of an
\* associated-label candidate being set by getPlaywrightLocator itself.
C19_FixedScores ==
    /\ scoreCall.result # -1 =>
          /\ scoreCall.type \in {"testid", "role", "placeholder", "name", "text"}
                => scoreCall.result = FixedScore(scoreCall.type)
          /\ scoreCall.type = "label" => scoreCall.result = 0
    /\ \A i \in 1..Len(composed.playwrightCandidates) :
          composed.playwrightCandidates[i].str.call.fn = "getByLabel"
             => composed.playwrightCandidates[i].score = 85

C19_Witness ==
    /\ scoreCall.type = "text" /\ scoreCall.result = 60
    /\ TestDigitRun(scoreCall.value) /\ Len(scoreCall.value) = MaxValueLen

C19_Witness_Label ==
    scoreCall.type = "label" /\ scoreCall.value # <<>> /\ scoreCall.result = 0

-----------------------------------------------------------------------------
(* Single quotes inside the literals of a locator string *)

QuotesEscaped(lit) ==
    \A i \in 1..Len(lit) : lit[i] = "'" => (i > 1 /\ lit[i - 1] = "\\")

StrEscaped(str) ==
    /\ QuotesEscaped(str.prefix.role) /\ QuotesEscaped(str.prefix.lit)
    /\ QuotesEscaped(str.call.role) /\ QuotesEscaped(str.call.lit)

\* C20: in the Playwright string and in the Selenium string composed for a
\* node, every single quote inside a string literal (attribute value, visible
\* text, label text, ancestor qualifier, structural selector) is preceded by
\* a backslash.
C20_SingleQuotesEscaped ==
    composed.node # 0 =>
        /\ \A i \in 1..Len(composed.playwrightLocator.chain) :
              StrEscaped(composed.playwrightLocator.chain[i])
        /\ QuotesEscaped(composed.playwrightLocator.waitLit)
        /\ \A i \in 1..Len(composed.seleniumLocator.attempts) :
              StrEscaped(composed.seleniumLocator.attempts[i])

-----------------------------------------------------------------------------
\* C21: however injections of the content script, start, stop, reset and
\* clearAll requests and suspend events follow one another, at most one
\* ElementInspector instance has a registered runtime-message listener, and
\* at most one instance answers a message.
Listening == {i \in DOMAIN window.inspectors : window.inspectors[i].onMessage}
Responders == {i \in DOMAIN window.inspectors : window.inspectors[i].response # ""}

C21_SingleInspector ==
    /\ Cardinality(Listening) <= 1
    /\ Cardinality(Responders) <= 1

-----------------------------------------------------------------------------
(* The selectors getElementSelector may try before the ancestry path, in    *)
(* the order of the strategies                                              *)

AttributeOrder == <<"name", "data-testid", "role", "type", "aria-label", "value",
                    "placeholder">>

SelectSeq1(seq, Keep(_)) ==
    LET F[i \in 0..Len(seq)] ==
            IF i = 0 THEN <<>>
            ELSE IF Keep(seq[i]) THEN Append(F[i - 1], seq[i]) ELSE F[i - 1]
    IN  F[Len(seq)]

StrategySelectors(d, n) ==
    LET HasValue(a) == getAttribute(d, n, a) # <<>>
    IN  (IF idOf(d, n) # <<>> THEN <<IdSelector(idOf(d, n))>> ELSE <<>>)
        \o [i \in 1..Len(classList(d, n)) |-> ClassSelector(<<classList(d, n)[i]>>)]
        \o (IF classList(d, n) # <<>> THEN <<ClassSelector(classList(d, n))>> ELSE <<>>)
        \o [i \in 1..Len(SelectSeq1(AttributeOrder, HasValue)) |->
               AttrSelector(tagName(d, n), SelectSeq1(AttributeOrder, HasValue)[i],
                            getAttribute(d, n, SelectSeq1(AttributeOrder, HasValue)[i]))]

\* the first of the selectors that passes the uniqueness test, 0 if none does
FirstPassing(d, n, selectors) ==
    LET passing == {i \in 1..Len(selectors) : isUniqueSelector(d, selectors[i], n)}
    IN  IF passing = {} THEN 0 ELSE CHOOSE i \in passing : \A j \in passing : i <= j

\* no other element of the document has the same id / the same name
UniqueId(d, n) ==
    idOf(d, n) # <<>> /\ \A m \in Elements(d) \ {n} : idOf(d, m) # idOf(d, n)
UniqueName(d, n) ==
    /\ getAttribute(d, n, "name") # <<>>
    /\ \A m \in Elements(d) \ {n} : getAttribute(d, m, "name") # getAttribute(d, n, "name")

\* C22 as stated: the strategies are tried in the order #id, single classes,
\* combined classes, the seven attributes, ancestry path; a node whose id no
\* other element has yields #id, and an input without id and class whose
\* name no other element has yields input[name="..."].
C22_Original ==
    synth.node # 0 =>
        LET n == synth.node
            selectors == StrategySelectors(dom, n)
            first == FirstPassing(dom, n, selectors)
        IN  /\ synth.sel = IF first # 0 THEN selectors[first] ELSE AncestrySelector(dom, n)
            /\ UniqueId(dom, n) => synth.sel = IdSelector(idOf(dom, n))
            /\ (tagName(dom, n) = "input" /\ idOf(dom, n) = <<>> /\ classList(dom, n) = <<>>
                  /\ UniqueName(dom, n))
               => synth.sel = AttrSelector("input", "name", getAttribute(dom, n, "name"))

\* C22 amended: the result is the first selector, in that order, that passes
\* the uniqueness test, and the ancestry path if none does; a node yields
\* #id exactly when #id passes the test, which an id that is no valid CSS
\* identifier does not even when no other element has it.
C22_StrategyOrder ==
    synth.node # 0 =>
        LET n == synth.node
            selectors == StrategySelectors(dom, n)
            first == FirstPassing(dom, n, selectors)
        IN  /\ synth.sel = IF first # 0 THEN selectors[first] ELSE AncestrySelector(dom, n)
            /\ (idOf(dom, n) # <<>> /\ isUniqueSelector(dom, IdSelector(idOf(dom, n)), n))
               <=> synth.sel = IdSelector(idOf(dom, n))
            /\ (UniqueId(dom, n) /\ ValidIdent(idOf(dom, n)))
               => synth.sel = IdSelector(idOf(dom, n))

\* an id no other element has is skipped as invalid, the only class is shared,
\* and the name attribute gives the selector
C22_Witness ==
    /\ synth.node # 0
    /\ UniqueId(dom, synth.node) /\ ~ValidIdent(idOf(dom, synth.node))
    /\ classList(dom, synth.node) # <<>>
    /\ synth.sel = AttrSelector("input", "name", getAttribute(dom, synth.node, "name"))

\* a valid id that no other element has wins over a unique class
C22_Witness_Id ==
    /\ synth.node # 0
    /\ synth.sel = IdSelector(idOf(dom, synth.node))
    /\ isUniqueSelector(dom, ClassSelector(classList(dom, synth.node)), synth.node)

-----------------------------------------------------------------------------
(* The ancestry path *)

\* the k-th ancestor of n, n itself for k = 0, 0 above the root
RECURSIVE Ancestor(_, _, _)
Ancestor(d, n, k) == IF k = 0 \/ n = 0 THEN n ELSE Ancestor(d, parentElement(d, n), k - 1)

\* the 1-based position of n among the siblings with its tag
PositionOfType(d, n) ==
    1 + Cardinality({m \in Elements(d) : /\ parentElement(d, m) = parentElement(d, n)
                                          /\ tagName(d, m) = tagName(d, n)
                                          /\ SiblingKey(d, m) < SiblingKey(d, n)})

OnlyOfTag(d, n) == \A m \in Elements(d) \ {n} : tagName(d, m) # tagName(d, n)

\* no id, no class and none of the seven attributes
Plain(d, n) ==
    /\ idOf(d, n) = <<>> /\ classList(d, n) = <<>>
    /\ \A i \in 1..Len(AttributeOrder) : getAttribute(d, n, AttributeOrder[i]) = <<>>

\* C23: when the ancestry path is the result, each of its segments is the
\* tag of the node or ancestor it stands for, followed by :nth-of-type(k)
\* exactly when k > 1 or the bare tag does not match that element alone, k
\* being its position among its same-tag siblings; the first two same-tag
\* siblings without id, class and listed attribute get different selectors
\* that end in tag:nth-of-type(1) and tag:nth-of-type(2).
C23_PathSegments ==
    synth.node # 0 =>
        LET n == synth.node
            sel == synth.sel
        IN  /\ FirstPassing(dom, n, StrategySelectors(dom, n)) = 0
               => \A j \in 1..Len(sel) :
                     LET e == Ancestor(dom, n, Len(sel) - j)
                         k == PositionOfType(dom, e)
                     IN  /\ sel[j].tag = tagName(dom, e)
                         /\ sel[j].id = <<>> /\ sel[j].cls = <<>> /\ sel[j].attr = <<>>
                         /\ sel[j].nth = IF k > 1 \/ ~OnlyOfTag(dom, e) THEN k ELSE 0
            /\ \A m \in Nodes(dom) \ {n} :
                  (/\ parentElement(dom, m) = parentElement(dom, n)
                   /\ tagName(dom, m) = tagName(dom, n)
                   /\ Plain(dom, n) /\ Plain(dom, m)
                   /\ PositionOfType(dom, n) = 1 /\ PositionOfType(dom, m) = 2)
                  => /\ sel # getElementSelector(dom, m)
                     /\ sel[Len(sel)] = TagSegment(tagName(dom, n), 1)
                     /\ getElementSelector(dom, m)[Len(getElementSelector(dom, m))]
                           = TagSegment(tagName(dom, m), 2)

\* the first of two plain <div> siblings: its path ends in div:nth-of-type(1)
\* and has a segment without index above it
C23_Witness ==
    /\ synth.node # 0 /\ Plain(dom, synth.node)
    /\ \E m \in Nodes(dom) \ {synth.node} :
          /\ parentElement(dom, m) = parentElement(dom, synth.node)
          /\ tagName(dom, m) = tagName(dom, synth.node) /\ Plain(dom, m)
          /\ PositionOfType(dom, m) = 2
    /\ synth.sel[Len(synth.sel)].nth = 1
    /\ \E j \in 1..Len(synth.sel) : synth.sel[j].nth = 0

-----------------------------------------------------------------------------
(* The ancestors an ancestor probe may stop at *)

Qualifies(d, a) ==
    \/ tagName(d, a) \in {"form", "main", "section", "article", "tr"}
    \/ getAttribute(d, a, "data-testid") # <<>>
    \/ getAttribute(d, a, "aria-label") # <<>>

\* the k nearest ancestors of n that exist, as distances
NearestAncestors(d, n, k) == {j \in 1..k : Ancestor(d, n, j) # 0}

\* the qualifiers that name ancestor a
QualifiersOf(d, a) ==
    {Call("getByTestId", <<>>, getAttribute(d, a, "data-testid")),
     Call("getByRole", <<"r", "e", "g", "i", "o", "n">>,
          EscapeSingleQuotes(getAttribute(d, a, "aria-label"))),
     Call("locator", <<>>, <<tagName(d, a)>>)}

\* C24: the ancestor probe looks at the 4 nearest ancestors of the node only,
\* nearest first, and returns a qualifier for the first of them that is a
\* form, main, section, article or tr element or carries a data-testid or
\* an aria-label attribute; it returns none when none of the 4 qualifies.
C24_AncestorProbe ==
    composed.node # 0 =>
        LET n == composed.node
            near == {j \in NearestAncestors(dom, n, 4) : Qualifies(dom, Ancestor(dom, n, j))}
        IN  IF near = {} THEN composed.semanticParent = NoCall
            ELSE LET first == CHOOSE j \in near : \A i \in near : j <= i
                 IN  composed.semanticParent \in QualifiersOf(dom, Ancestor(dom, n, first))

-----------------------------------------------------------------------------
(* The path from the document root down to a node *)

\* the number of ancestors of n
RECURSIVE Depth(_, _)
Depth(d, n) == IF parentElement(d, n) = 0 THEN 0 ELSE 1 + Depth(d, parentElement(d, n))

\* the segment the claim gives element e
IndexedTag(d, e) ==
    LET before == Cardinality({m \in Elements(d) : /\ parentElement(d, m) = parentElement(d, e)
                                                   /\ tagName(d, m) = tagName(d, e)
                                                   /\ SiblingKey(d, m) < SiblingKey(d, e)})
    IN  IF before = 0 THEN <<tagName(d, e)>>
        ELSE <<tagName(d, e), "[">> \o Decimal(1 + before) \o <<"]">>

\* "/" and the segment of each element from the k-th ancestor of n down to n
RECURSIVE RootPath(_, _, _)
RootPath(d, n, k) ==
    <<"/">> \o IndexedTag(d, Ancestor(d, n, k))
    \o (IF k = 0 THEN <<>> ELSE RootPath(d, n, k - 1))

\* C25: for a node with an id getElementXPath returns //*[@id="<id>"]; for a
\* node without an id it returns, from the document root down to the node,
\* '/' and the tag of each element followed by [k], k being 1 + the number of
\* preceding sibling elements with the same tag, the index left out exactly
\* when that number is zero.
C25_XPath ==
    synth.node # 0 =>
        IF idOf(dom, synth.node) # <<>>
        THEN synth.xpath = <<"//*[@id=", "\"">> \o idOf(dom, synth.node) \o <<"\"", "]">>
        ELSE synth.xpath = RootPath(dom, synth.node, Depth(dom, synth.node))

\* a node without id that has a same-tag sibling before it, under ancestors
\* that have none
C25_Witness ==
    /\ synth.node # 0 /\ idOf(dom, synth.node) = <<>>
    /\ SameTagBefore(dom, synth.node) = 1
    /\ Depth(dom, synth.node) >= 3
    /\ \E i \in 1..Len(synth.xpath) : synth.xpath[i] = "["
    /\ SubSeq(synth.xpath, 1, 4) = <<"/", "html", "/", "body">>

C25_Witness_Id ==
    synth.node # 0 /\ idOf(dom, synth.node) # <<>> /\ synth.xpath[1] = "//*[@id="

-----------------------------------------------------------------------------
(* Attempts of one fetchWithRetry call *)

\* the failures the retry is claimed for: a timeout, a 429 rate limit, any
\* 5xx service error, a network error
RetryClaimed(outcome) ==
    \/ outcome.kind \in {"timeout", "network"}
    \/ outcome.kind = "http" /\ (outcome.status = 429 \/ outcome.status \in 500..599)

\* attempt i (from 1) failed and another attempt follows it
Retried(i) == i < Len(retry.calls) \/ retry.pc \in {"waiting", "calling"}

\* C26: the request runs at most maxRetries times and the first success is
\* returned at once; a failed attempt is followed by another, after a delay
\* of 600 * 2^attempt ms, exactly when attempts remain and the failure was a
\* timeout, a 429, a 5xx or a network error; any other error is rethrown
\* after the attempt that raised it.
C26_RetryPolicy ==
    /\ Len(retry.calls) <= retry.maxRetries
    /\ \A i \in 1..Len(retry.calls) :
          IF retry.calls[i].kind = "ok"
          THEN i = Len(retry.calls) /\ retry.pc = "returned" /\ retry.result = retry.calls[i]
          ELSE /\ Retried(i) <=> (i < retry.maxRetries /\ RetryClaimed(retry.calls[i]))
               /\ Retried(i) => /\ i <= Len(retry.delays)
                                /\ retry.delays[i] = 600 * Pow2(i - 1)
               /\ (~Retried(i) /\ ~RetryClaimed(retry.calls[i]))
                     => retry.pc = "thrown" /\ retry.result = ThrownBy(retry.calls[i])

-----------------------------------------------------------------------------
\* C27: while inspection is active, a click on an element, whatever was
\* hovered and clicked before, leaves the record of every other element in
\* place and unchanged.  (With each click adding or removing the record of
\* its own element, this is what keeps the records those of the elements
\* clicked an odd number of times.)
C27_OtherRecordsKept ==
    [][\A element \in Nodes(dom) :
          (isActive /\ "click" \in listeners /\ Click(element))
          => \A other \in Nodes(dom) \ {element} :
                RecordSet(selectedElements', {other}) = RecordSet(selectedElements, {other})]_vars

-----------------------------------------------------------------------------
\* C29: the record a click adds for an element is the record the same click
\* would add if the element carried neither the hover class element-highlight
\* nor the inspector's tooltip at that moment.
Unhovered(d, element) == removeTooltip(ClassRemove(d, element, HighlightClass), element)

C29_RecordIgnoresHover ==
    [][\A element \in Nodes(dom) :
          (isActive /\ "click" \in listeners /\ Click(element) /\ NewSelection)
          => LET plain == Unhovered(dom, element)
             IN  NewRecord = SelectionRecord(plain, element,
                                 getElementSelector(plain, element),
                                 IsDynamic(plain, element, domNodeCreationTimes, now))]_vars

-----------------------------------------------------------------------------
\* C28: once the response to a removeHighlight request and the
\* updateSelectedElements message of the same removal have both been taken in
\* by the side panel, in whichever order they came, the side panel lists the
\* selectors the content script holds, in the same order.
SelectorsOf(elements) == [i \in 1..Len(elements) |-> elements[i].selector]

NothingPending == tabs = NoTabs /\ panel.callbacks = <<>>

C28_RemovalExact ==
    NothingPending => SelectorsOf(panel.currentElements) = SelectorsOf(selectedElements)

-----------------------------------------------------------------------------
\* C30: whatever the order of the clicks on Inspect, Stop, Reset and Generate
\* and of their callbacks, the four buttons are disabled while a generation
\* runs, and when no callback is pending and no generation runs, Stop is
\* enabled exactly when the content script inspects and Inspect is disabled
\* exactly then.
AllDisabled == \A b \in Buttons : panel.disabled[b]

NoCallbackPending ==
    /\ tabs.queries = <<>> /\ tabs.requests = <<>> /\ tabs.responses = <<>>
    /\ panel.callbacks = <<>>
    /\ ~panel.generating

DisabledWhileGenerating == panel.generating => AllDisabled

ButtonsFollowMode ==
    NoCallbackPending => /\ ~panel.disabled["stop"] <=> isActive
                         /\ panel.disabled["inspect"] <=> isActive

C30_ButtonsConsistent == DisabledWhileGenerating /\ ButtonsFollowMode

=============================================================================
